---- MODULE Spec2Model ----
(***************************************************************************)
(* A model of the Rydesta interpreter core (src/rydesta): the evaluator of *)
(* machine.py (pattern engine, variations bundles, call dispatch, object   *)
(* instantiation, module loading), the driver loop of machine.visit with   *)
(* the token look-ahead of reader.Reader, and the kernel of master.Master. *)
(*                                                                         *)
(* Python objects that are shared by reference are kept in heaps (bundles, *)
(* states, caches) and named by their index; the evaluator's nodes are the *)
(* nodes machine.py reads (type, line and the properties it accesses).     *)
(* Python str payloads are sequences of one-character strings.             *)
(***************************************************************************)
EXTENDS Integers, Sequences, FiniteSets, TLC

VARIABLES
  env,        \* Master.state.env: the root environment, name -> value
  bundles,    \* heap of RyVariations objects, by reference index
  forms,      \* number of top-level forms evaluated so far that changed state
  last,       \* what the last evaluated top-level form did
  caches,     \* heap of the Python sets of RyStr that MODULE-CACHE values hold
  readers,    \* heap of Reader objects, by master; the root master is 1
  pending,    \* visit: where the driver loop is, or the node Reader.next returned
  lexed,      \* for each lexeme of the source read so far, when it was lexed
  after,      \* the root reader's switch tables after each evaluated form
  fed,        \* the module bodies fed to a child master, with the importer
  quoted      \* history: what the last quoted expression gave at the quote site

defVars == <<env, bundles, forms, last>>

readerVars == <<caches, readers, pending, lexed, after, fed>>

ioVars == <<readerVars, quoted>>

vars == <<env, bundles, forms, last, caches, readers, pending, lexed, after, fed, quoted>>

-----------------------------------------------------------------------------
(* Bounds of the model. *)

\* Top-level forms evaluated in one run of the definitions specification.
MaxForms == 3

-----------------------------------------------------------------------------
(* Python text, as sequences of characters. *)

TxNum == <<"n", "u", "m">>
TxStr == <<"s", "t", "r">>
TxZero == <<"z", "e", "r", "o">>
TxOther == <<"o", "t", "h", "e", "r">>
TxHi == <<"h", "i">>

-----------------------------------------------------------------------------
(* Runtime values: machine.py's HasType classes. *)

RyNum(n) == [type |-> "num", value |-> n]
RyStr(s) == [type |-> "str", value |-> s]
RyBool(b) == [type |-> "bool", value |-> b]
RyVec(items) == [type |-> "vec", value |-> items]
RyTypeType(t) == [type |-> "type", value |-> t]
RyNothing == [type |-> "nothing"]
RyBuiltin(callable) == [type |-> "builtin", value |-> callable]
RyVariations(ref) == [type |-> "variations", ref |-> ref]
RyObject(name, props, block, state) ==
  [type |-> "object", name |-> name, props |-> props, block |-> block, state |-> state]
RyExcerpt(state, node) == [type |-> "excerpt", state |-> state, node |-> node]
\* A Python str that is not boxed in a RyStr (a key of an environment).
PyStr(s) == [type |-> "python str", value |-> s]

\* isinstance(x, _Box)
IsBox(x) == x.type \in {"num", "str", "bool", "vec", "type", "builtin"}

\* The Python class of a box's payload: what == and `in` compare.
PayloadKind(x) ==
  CASE x.type = "num" -> "Fraction"
    [] x.type \in {"str", "type"} -> "str"
    [] x.type = "bool" -> "bool"
    [] x.type = "vec" -> "list"
    [] OTHER -> "callable"

\* lval in ('', [])
PyIsEmptyTextOrList(x) ==
  PayloadKind(x) \in {"str", "list"} /\ Len(x.value) = 0

\* lval == rval for two payloads that are not both lists
PyPayloadEq(l, r) ==
  /\ PayloadKind(l) = PayloadKind(r)
  /\ PayloadKind(l) \in {"Fraction", "str", "callable"}
  /\ l.value = r.value

RECURSIVE _equals(_, _)
_equals(left, right) ==
  IF IsBox(left) /\ IsBox(right)
  THEN IF left.type = "bool" \/ right.type = "bool"
       THEN \* lval is rval
            left.type = "bool" /\ right.type = "bool" /\ left.value = right.value
       ELSE IF left.type = "vec" /\ right.type = "vec"
       THEN IF Len(left.value) = Len(right.value)
            THEN \A i \in 1..Len(left.value) : _equals(left.value[i], right.value[i])
            ELSE FALSE
       ELSE \/ PyIsEmptyTextOrList(left) /\ PyIsEmptyTextOrList(right)
            \/ PyPayloadEq(left, right)
  ELSE FALSE

-----------------------------------------------------------------------------
(* Environments: Python dicts from names to values. *)

\* A local variable of the Python code: the value, bound in what follows
Let(value, Body(_)) == Body(value)

EnvSet(e, name, value) ==
  [n \in DOMAIN e \cup {name} |-> IF n = name THEN value ELSE e[n]]

\* HasType.__subclasses__(), each defined as a type value by Master.kernel
TypeTags ==
  {"type", "variations", "function", "object", "routeable", "excerpt",
   "builtin", "nothing", "bool", "vec", "num", "str"}

\* klass.type as Python text
TypeText(tag) ==
  CASE tag = "type" -> <<"t", "y", "p", "e">>
    [] tag = "variations" -> <<"v", "a", "r", "i", "a", "t", "i", "o", "n", "s">>
    [] tag = "function" -> <<"f", "u", "n", "c", "t", "i", "o", "n">>
    [] tag = "object" -> <<"o", "b", "j", "e", "c", "t">>
    [] tag = "routeable" -> <<"r", "o", "u", "t", "e", "a", "b", "l", "e">>
    [] tag = "excerpt" -> <<"e", "x", "c", "e", "r", "p", "t">>
    [] tag = "builtin" -> <<"b", "u", "i", "l", "t", "i", "n">>
    [] tag = "nothing" -> <<"n", "o", "t", "h", "i", "n", "g">>
    [] tag = "bool" -> <<"b", "o", "o", "l">>
    [] tag = "vec" -> <<"v", "e", "c">>
    [] tag = "num" -> TxNum
    [] tag = "str" -> TxStr

\* The bindings Master.kernel defines that the evaluator's own forms read:
\* true, false and one type value per HasType subclass.
KernelTypes ==
  [n \in {"true", "false"} \cup TypeTags |->
     CASE n = "true" -> RyBool(TRUE)
       [] n = "false" -> RyBool(FALSE)
       [] OTHER -> RyTypeType(TypeText(n))]

\* RyStr(f'.;{self.basis}'): the working directory, then the basis
TxPath == <<".", ";", "b">>

\* A native function of a master: the bound method Master._k_<name>
Native(master, name) == [type |-> "python method", master |-> master, name |-> name]

\* The names of the methods Master.kernel finds with the prefix _k_
KernelBuiltins ==
  {"set-precedence", "set-guard-precedence", "builtin", "call", "to-py", "wraps",
   "import"}

\* The environment key of a builtin
BuiltinKey(name) == "#:" \o name

\* Master.kernel: the bindings it defines, by a master whose new
\* MODULE-CACHE set is at this place of the heap
Kernel(master, cache) ==
  [n \in {"PATH", "MODULE-CACHE"} |->
     IF n = "PATH" THEN RyStr(TxPath) ELSE RyVec([set |-> cache])]
  @@ KernelTypes
  @@ [k \in {BuiltinKey(name) : name \in KernelBuiltins} |->
        Native(master, CHOOSE name \in KernelBuiltins : BuiltinKey(name) = k)]

-----------------------------------------------------------------------------
(* reader.Reader: the switch tables and the lexer's position. *)

Token(type, value) == [type |-> type, value |-> value]

\* Reader.__init__, with the position Reader.update sets
NewReader ==
  [switches |->
     [tokens |-> <<>>,
      symbols |-> {"->", "=>", "!", "_", "=", ".", ",", "(", ")", "[", "]", "{", "}",
                   "*", "+"},
      prefixes |-> {},
      keywords |-> {"for", "expect", "ret", "if", "else", "case", "division", "needs",
                    "hidden", "exposed", "new", "obj", "secret", "umbrella"},
      precedence |-> <<>>],
   symbol_regex |-> {"->", "=>", "!", "_", "=", ".", ",", "(", ")", "[", "]", "{", "}",
                     "*", "+"},
   source |-> <<>>,
   pos |-> 0,
   token |-> Token("BOL", "")]

\* The absolute path of basis/boot.ry, the prelude
BootPath == "/b/boot.ry"

\* A RyStr object in a MODULE-CACHE set: Python hashes it by identity
CacheEntry(obj, path) == [obj |-> obj, value |-> path]

-----------------------------------------------------------------------------
(* Nodes: reader.RyNode records, with the properties machine.py reads. *)

Number(n) == [type |-> "Number", value |-> n]
String(s) == [type |-> "String", value |-> s]
Request(name) == [type |-> "Request", name |-> name]

P_Identifier(name) == [type |-> "P_Identifier", name |-> name]
P_Discard == [type |-> "P_Discard"]
P_Compare(node) == [type |-> "P_Compare", value |-> node]
P_Guard(param, guard) == [type |-> "P_Guard", param |-> param, guard |-> guard]
P_Extract(obj, fields) == [type |-> "P_Extract", obj |-> obj, fields |-> fields]
P_Unpack(members) == [type |-> "P_Unpack", members |-> members]
P_NamedMulti(name) == [type |-> "P_NamedMulti", name |-> name]
P_NamedMany(name) == [type |-> "P_NamedMany", name |-> name]
P_DiscardMulti == [type |-> "P_DiscardMulti"]
P_DiscardMany == [type |-> "P_DiscardMany"]

-----------------------------------------------------------------------------
(* RyPriority and _prioritize. *)

COMPARE == 16777216
GUARD == 2097152
EXTRACT == 262144
UNPACK == 32768
IDENTIFIER == 4096
NAMED_GROUP == 512
DISCARD_GROUP == 64
SLURPY == 8
UNREACHABLE == 0

RECURSIVE _prioritize(_)
RECURSIVE SumPriorities(_)

\* sum(_prioritize(item) for item in pattern), for a list of patterns
SumPriorities(patterns) ==
  IF patterns = <<>> THEN 0
  ELSE _prioritize(Head(patterns)) + SumPriorities(Tail(patterns))

_prioritize(pattern) ==
  CASE pattern.type = "P_Compare" -> COMPARE
    [] pattern.type = "P_Guard" -> GUARD
    [] pattern.type = "P_Extract" ->
         (EXTRACT + SumPriorities(pattern.fields)) * (Len(pattern.fields) + 1)
    [] pattern.type = "P_Unpack" ->
         (UNPACK + SumPriorities(pattern.members)) * (Len(pattern.members) + 1)
    [] pattern.type \in {"P_Identifier", "P_Discard"} -> IDENTIFIER
    [] pattern.type \in {"P_NamedMulti", "P_NamedMany"} -> NAMED_GROUP
    [] pattern.type \in {"P_DiscardMulti", "P_DiscardMany"} -> DISCARD_GROUP
    [] OTHER -> UNREACHABLE

-----------------------------------------------------------------------------
(* The evaluator on value nodes, and the pattern engine. A result is a     *)
(* record with st = "ok" (a value), "die" (_DeathError) or "crash" (any    *)
(* other Python exception); a pattern result has st = "ok" (True, ''),     *)
(* "fail" (False, message), "die" or "crash", and the environment as the   *)
(* match left it.                                                          *)

Ok(value) == [st |-> "ok", value |-> value]
Die(reason) == [st |-> "die", reason |-> reason]
Crash(reason) == [st |-> "crash", reason |-> reason]

\* _visit_node on the nodes that read the environment without changing it
VisitValueNode(e, node) ==
  CASE node.type = "Request" ->
         IF node.name \in DOMAIN e THEN Ok(e[node.name]) ELSE Die("is not defined")
    [] node.type = "Number" -> Ok(RyNum(node.value))
    [] node.type = "String" -> Ok(RyStr(node.value))
    [] node.type = "Builtin" ->
         IF BuiltinKey(node.name) \in DOMAIN e
         THEN Ok(RyBuiltin(e[BuiltinKey(node.name)]))
         ELSE Die("builtin not found")
    [] node.type = "Path" ->
         \* node.parent is a str: _visit_node reads its line
         Crash("AttributeError: 'str' object has no attribute 'line'")

Matched(e) == [st |-> "ok", env |-> e]
Failed(e, reason) == [st |-> "fail", env |-> e, reason |-> reason]
Died(e, reason) == [st |-> "die", env |-> e, reason |-> reason]
Crashed(e, reason) == [st |-> "crash", env |-> e, reason |-> reason]

RECURSIVE _visit_pattern(_, _, _)
RECURSIVE VisitFields(_, _, _, _)
RECURSIVE FindDelimiter(_, _, _, _, _)
RECURSIVE UnpackFrom(_, _, _, _, _)

\* for extractable, field in zip(value.extractable, pattern.fields): ...
VisitFields(e, extractable, fields, i) ==
  IF i > Len(extractable) \/ i > Len(fields) THEN Matched(e)
  ELSE Let(_visit_pattern(e, fields[i], extractable[i]), LAMBDA r :
         CASE r.st = "ok" -> VisitFields(r.env, extractable, fields, i + 1)
           \* the message of line 344 names `prop`, which is bound nowhere
           [] r.st = "fail" -> Crashed(r.env, "NameError: prop")
           [] OTHER -> r)

Min(a, b) == IF a <= b THEN a ELSE b
Max(a, b) == IF a >= b THEN a ELSE b

\* seq[off:], where a negative offset counts from the end
PySliceFrom(seq, off) ==
  SubSeq(seq, 1 + (IF off < 0 THEN Max(Len(seq) + off, 0) ELSE Min(off, Len(seq))),
         Len(seq))

\* seq[:end], where a negative end counts from the end
PySliceTo(seq, end) ==
  SubSeq(seq, 1, IF end < 0 THEN Max(Len(seq) + end, 0) ELSE Min(end, Len(seq)))

\* Whether seq[i] raises IndexError
PyIndexError(seq, i) == i >= Len(seq) \/ i < 0 - Len(seq)

\* seq[i], where a negative index counts from the end
PyIndex(seq, i) == IF i < 0 THEN seq[Len(seq) + i + 1] ELSE seq[i + 1]

\* RyStr(item) if is_str else item
Wrap(is_str, item) == IF is_str THEN RyStr(<<item>>) ELSE item

\* (RyStr if is_str else RyVec)(values[:captured])
WrapSlice(is_str, values, captured) ==
  IF is_str THEN RyStr(PySliceTo(values, captured))
  ELSE RyVec(PySliceTo(values, captured))

\* len(_just_of(pattern.members, ...types))
CountOf(members, types) == Cardinality({i \in 1..Len(members) : members[i].type \in types})

\* member.type.startswith(('P_DiscardM', 'P_NamedM'))
IsGroup(member) ==
  member.type \in {"P_DiscardMulti", "P_DiscardMany", "P_NamedMulti", "P_NamedMany"}

\* 'Named' in member.type, 'Multi' in member.type
IsNamed(member) == member.type \in {"P_NamedMulti", "P_NamedMany"}
IsMulti(member) == member.type \in {"P_NamedMulti", "P_DiscardMulti"}

\* members[1].type in ('P_Compare', 'P_Guard', 'P_Extract')
IsDelimiter(member) == member.type \in {"P_Compare", "P_Guard", "P_Extract"}

DelimiterAt(e, index) == [st |-> "found", env |-> e, index |-> index]
NoItems(e) == [st |-> "none", env |-> e]

\* for index, item in enumerate(values): the first item the delimiter
\* matches; the search fails on the last item, and finds nothing in no items
FindDelimiter(e, delimiter, values, is_str, index) ==
  IF index >= Len(values) THEN NoItems(e)
  ELSE Let(_visit_pattern(e, delimiter, Wrap(is_str, values[index + 1])), LAMBDA r :
         CASE r.st = "ok" -> DelimiterAt(r.env, index)
           [] r.st = "fail" ->
                IF index = Len(values) - 1
                THEN Failed(r.env, "reached the end searching for the delimiter")
                ELSE FindDelimiter(r.env, delimiter, values, is_str, index + 1)
           [] OTHER -> r)

\* A group member, once its delimiter was searched for: `captured` items are
\* taken, and `skip` is 1 when a delimiter was found and jumped over
Group(e, pattern, value, v_off, m_off, member, values, captured, skip) ==
  IF captured = 0 /\ IsMulti(member)
  THEN Failed(e, "required at least one item to match, got none")
  ELSE UnpackFrom(IF IsNamed(member)
                  THEN EnvSet(e, member.name,
                              WrapSlice(value.type = "str", values, captured))
                  ELSE e,
                  pattern, value, v_off + skip + captured, m_off + skip + 1)

\* A group member of the unpack loop
GroupMember(e, pattern, value, v_off, m_off, members, values) ==
  IF Len(members) > 1 /\ IsDelimiter(members[2])
  THEN Let(FindDelimiter(e, members[2], values, value.type = "str", 0), LAMBDA r :
         CASE r.st = "found" ->
                Group(r.env, pattern, value, v_off, m_off, members[1], values, r.index, 1)
           [] r.st = "none" ->
                Group(r.env, pattern, value, v_off, m_off, members[1], values,
                      Len(values) - (Len(members) - 1), 0)
           [] OTHER -> r)
  ELSE Group(e, pattern, value, v_off, m_off, members[1], values,
             Len(values) - (Len(members) - 1), 0)

\* A member of the unpack loop that takes one item
SingleMember(e, pattern, value, v_off, m_off, member) ==
  IF PyIndexError(value.value, v_off)
  THEN Crashed(e, "IndexError: index out of range")
  ELSE Let(_visit_pattern(e, member, Wrap(value.type = "str", PyIndex(value.value, v_off))),
           LAMBDA r :
             CASE r.st = "ok" -> UnpackFrom(r.env, pattern, value, v_off + 1, m_off + 1)
               [] r.st = "fail" -> Failed(r.env, "unpack failed on member")
               [] OTHER -> r)

\* One turn of the loop of P_Unpack, with the members and the values left
UnpackTurn(e, pattern, value, v_off, m_off, members, values) ==
  IF IsGroup(members[1])
  THEN GroupMember(e, pattern, value, v_off, m_off, members, values)
  ELSE IF Len(values) - (Len(members) - 1) < 0
  THEN Failed(e, "too small to be captured")
  ELSE SingleMember(e, pattern, value, v_off, m_off, members[1])

\* The loop of P_Unpack, from the offsets v_off and m_off on
UnpackFrom(e, pattern, value, v_off, m_off) ==
  IF m_off >= Len(pattern.members) THEN Matched(e)
  ELSE UnpackTurn(e, pattern, value, v_off, m_off,
                  PySliceFrom(pattern.members, m_off), PySliceFrom(value.value, v_off))

\* multis + manys > 2 and (multis + manys) * 1.5 > len(pattern.members)
MustBeDelimited(groups, members) == groups > 2 /\ groups * 3 > 2 * Len(members)

\* _visit_pattern on a P_Unpack pattern
Unpack(e, pattern, value, groups) ==
  IF value.type \notin {"vec", "str"}
  THEN Failed(e, "right-hand side must be a vector or a string")
  ELSE IF Len(pattern.members) # Len(value.value) /\ groups = 0
  THEN Failed(e, "got pattern of another length")
  ELSE IF MustBeDelimited(groups, pattern.members)
  THEN Died(e, "several multi-item captures must be delimited")
  ELSE UnpackFrom(e, pattern, value, 0, 0)

_visit_pattern(e, pattern, value) ==
  CASE pattern.type = "P_Identifier" -> Matched(EnvSet(e, pattern.name, value))
    [] pattern.type = "P_Unpack" ->
         Unpack(e, pattern, value,
                CountOf(pattern.members, {"P_DiscardMulti", "P_NamedMulti"})
                + CountOf(pattern.members, {"P_DiscardMany", "P_NamedMany"}))
    [] pattern.type = "P_Compare" ->
         Let(VisitValueNode(e, pattern.value), LAMBDA comparee :
           IF comparee.st # "ok" THEN Died(e, comparee.reason)
           ELSE IF _equals(comparee.value, value) THEN Matched(e)
           ELSE Failed(e, "expected comparee"))
    [] pattern.type = "P_Guard" ->
         Let(EnvSet(e, pattern.param, value), LAMBDA bound :
           Let(VisitValueNode(bound, pattern.guard), LAMBDA result :
             IF result.st # "ok" THEN Died(bound, result.reason)
             ELSE IF result.value.type = "bool" /\ result.value.value THEN Matched(bound)
             ELSE Failed(bound, "vetoed by the guard")))
    [] pattern.type = "P_Extract" ->
         IF pattern.obj \notin DOMAIN e THEN Died(e, "entity does not exist")
         ELSE Let(e[pattern.obj], LAMBDA obj :
                IF obj.type # "object"
                THEN IF _equals(obj, value) THEN Matched(e)
                     ELSE Failed(e, "expected obj")
                ELSE IF value.type # "routeable" THEN Failed(e, "is not an object")
                ELSE IF obj.name # value.name THEN Failed(e, "bogus object")
                ELSE VisitFields(e, value.extractable, pattern.fields, 1))
    [] pattern.type \in {"P_Discard", "P_NamedMulti", "P_NamedMany",
                         "P_DiscardMulti", "P_DiscardMany"} -> Matched(e)

-----------------------------------------------------------------------------
(* Variations bundles and function records. *)

\* RyFunction.__init__: `state` is the RyState it was given. A naked function
\* keeps the definer's own (live) state; any other gets a copy (a snapshot).
LiveState == [live |-> TRUE]
CopiedState(e) == [live |-> FALSE, env |-> e]

RyFunction(state, priority, node) ==
  [state |-> state, priority |-> priority, name |-> node.name,
   params |-> node.params, arity |-> Len(node.params), body |-> node.body,
   line |-> node.line]

RECURSIVE InsertByPriority(_, _)
\* Where a stable descending sort leaves x: behind every element whose
\* priority is greater or equal.
InsertByPriority(sorted, x) ==
  IF sorted = <<>> THEN <<x>>
  ELSE IF Head(sorted).priority >= x.priority
       THEN <<Head(sorted)>> \o InsertByPriority(Tail(sorted), x)
       ELSE <<x>> \o sorted

RECURSIVE SortByPriority(_)
\* list.sort(key=lambda x: x.priority, reverse=True): stable, descending
SortByPriority(list) ==
  IF list = <<>> THEN <<>>
  ELSE InsertByPriority(SortByPriority(SubSeq(list, 1, Len(list) - 1)),
                        list[Len(list)])

\* A bundle that appends without re-sorting.
VariationsAddUnsorted(variations, variation) == Append(variations, variation)

RECURSIVE InsertBeforeEqual(_, _)
InsertBeforeEqual(sorted, x) ==
  IF sorted = <<>> THEN <<x>>
  ELSE IF Head(sorted).priority > x.priority
       THEN <<Head(sorted)>> \o InsertBeforeEqual(Tail(sorted), x)
       ELSE <<x>> \o sorted

\* A bundle whose sort puts the new variation ahead of its equals.
VariationsAddUnstable(variations, variation) == InsertBeforeEqual(variations, variation)

\* RyVariations.add
VariationsAdd(variations, variation) ==
  SortByPriority(Append(variations, variation))

\* RyVariations.__init__
NewVariations(name, initial, quoting, naked) ==
  [name |-> name, variations |-> <<initial>>, quoting |-> quoting, naked |-> naked]

\* node.name.startswith('\'') for the names of the model
QuotedNames == {"'op"}
StartsWithApostrophe(name) == name \in QuotedNames

-----------------------------------------------------------------------------
(* Call dispatch on a variations bundle (_visit_node, Call). *)

\* variation.state.copy(): a new environment holding the captured bindings;
\* `root` is the live environment a naked function shares with its definer.
Capsule(variation, root) ==
  IF variation.state.live THEN root ELSE variation.state.env

RECURSIVE MatchParams(_, _, _, _)
\* for param, arg in zip(variation.params, args): stop at the first failure
MatchParams(capsule, params, args, k) ==
  IF k > Len(params) \/ k > Len(args) THEN Matched(capsule)
  ELSE Let(_visit_pattern(capsule, params[k], args[k]), LAMBDA r :
         IF r.st = "ok" THEN MatchParams(r.env, params, args, k + 1) ELSE r)

Won(index, capsule) == [st |-> "ok", index |-> index, capsule |-> capsule]
NoneMatched == [st |-> "nomatch"]

RECURSIVE DispatchFrom(_, _, _, _)
\* A dispatch loop without the shortcut for arity 0: a variation with no
\* parameters is passed over like one whose arity differs.
DispatchFromWithoutShortcut(variations, args, root, index) ==
  LET variation == variations[index]
      capsule == Capsule(variation, root)
      continue == IF index = Len(variations) THEN NoneMatched
                  ELSE DispatchFrom(variations, args, root, index + 1)
      decide(r) == CASE r.st = "ok" -> Won(index, r.env)
                     [] r.st = "fail" -> continue
                     [] OTHER -> [st |-> r.st, reason |-> r.reason]
  IN IF variation.priority = SLURPY
     THEN Let(_visit_pattern(capsule, variation.params[1], RyVec(args)),
              LAMBDA r : decide(r))
     ELSE IF variation.arity = Len(args) /\ variation.arity # 0
     THEN Let(MatchParams(capsule, variation.params, args, 1), LAMBDA r : decide(r))
     ELSE continue

\* for index, variation in enumerate(callee.variations): ...
DispatchFrom(variations, args, root, index) ==
  LET variation == variations[index]
      capsule == Capsule(variation, root)
      varc == Len(variations)
      continue == IF index = varc THEN NoneMatched
                  ELSE DispatchFrom(variations, args, root, index + 1)
      decide(r) == CASE r.st = "ok" -> Won(index, r.env)
                     [] r.st = "fail" -> continue
                     [] OTHER -> [st |-> r.st, reason |-> r.reason]
  IN IF variation.priority = SLURPY
     THEN Let(_visit_pattern(capsule, variation.params[1], RyVec(args)),
              LAMBDA r : decide(r))
     ELSE IF variation.arity = Len(args)
     THEN IF variation.arity = 0 THEN Won(index, capsule)
          ELSE Let(MatchParams(capsule, variation.params, args, 1), LAMBDA r : decide(r))
     ELSE continue

RECURSIVE VisitList(_, _)
\* [_visit_node(S, x) for x in node], on value nodes: the values, or the
\* first death
VisitList(e, nodes) ==
  IF nodes = <<>> THEN Ok(<<>>)
  ELSE Let(VisitValueNode(e, Head(nodes)), LAMBDA head :
         IF head.st # "ok" THEN head
         ELSE Let(VisitList(e, Tail(nodes)), LAMBDA rest :
                IF rest.st # "ok" THEN rest
                ELSE Ok(<<head.value>> \o rest.value)))

\* The body of the winning variation: body[:-1] in the capsule, then the last
\* node (a Ret's value in its place) in the capsule as the new state.
VisitBody(capsule, body) ==
  IF body = <<>> THEN Ok(RyNothing)
  ELSE Let(VisitList(capsule, SubSeq(body, 1, Len(body) - 1)), LAMBDA init :
         IF init.st # "ok" THEN init
         ELSE VisitValueNode(capsule, body[Len(body)]))

\* The arguments of a call: excerpts of the nodes for a quoting bundle, the
\* nodes' values otherwise.
CallArgs(e, bundle, nodes) ==
  IF bundle.quoting
  THEN Ok([i \in 1..Len(nodes) |-> RyExcerpt(CopiedState(e), nodes[i])])
  ELSE VisitList(e, nodes)

\* _visit_node on a Call node whose callee is a Request: what the call did.
VisitCall(e, heap, node) ==
  Let(VisitValueNode(e, node.callee), LAMBDA callee :
    IF callee.st # "ok" THEN [kind |-> "call", st |-> "die", reason |-> callee.reason]
    ELSE CASE callee.value.type = "variations" ->
      Let(heap[callee.value.ref], LAMBDA bundle :
        Let(CallArgs(e, bundle, node.args), LAMBDA args :
          IF args.st # "ok" THEN [kind |-> "call", st |-> "die", reason |-> args.reason]
          ELSE Let(DispatchFrom(bundle.variations, args.value, e, 1), LAMBDA d :
                 CASE d.st = "nomatch" ->
                        [kind |-> "call", st |-> "die", reason |-> "none matched",
                         ref |-> callee.value.ref, args |-> args.value]
                   [] d.st \in {"die", "crash"} ->
                        [kind |-> "call", st |-> d.st, reason |-> d.reason,
                         ref |-> callee.value.ref, args |-> args.value]
                   [] d.st = "ok" ->
                        [kind |-> "call", st |-> "done", ref |-> callee.value.ref,
                         args |-> args.value, index |-> d.index,
                         capsule |-> d.capsule,
                         result |-> VisitBody(d.capsule,
                                              bundle.variations[d.index].body)]))))

-----------------------------------------------------------------------------
(* The top-level forms the definitions specification evaluates. *)

Function(name, params, body, slurpy, quoting, naked) ==
  [type |-> "Function", name |-> name, params |-> params, body |-> body,
   slurpy |-> slurpy, quoting |-> quoting, naked |-> naked]

Call(callee, args) == [type |-> "Call", callee |-> Request(callee), args |-> args]

FunctionNodes ==
  { \* f 0 -> "zero"
    Function("f", <<P_Compare(Number(0))>>, <<String(TxZero)>>, FALSE, FALSE, FALSE),
    \* f (num n) -> "num"
    Function("f", <<P_Extract("num", <<P_Identifier("n")>>)>>, <<String(TxNum)>>,
             FALSE, FALSE, FALSE),
    \* f _ -> "other"
    Function("f", <<P_Discard>>, <<String(TxOther)>>, FALSE, FALSE, FALSE),
    \* f n -> n
    Function("f", <<P_Identifier("n")>>, <<Request("n")>>, FALSE, FALSE, FALSE),
    \* f -> "zero"
    Function("f", <<>>, <<String(TxZero)>>, FALSE, FALSE, FALSE),
    \* f, slurpy, binding all the arguments to args
    Function("f", <<P_Identifier("args")>>, <<Request("args")>>, TRUE, FALSE, FALSE),
    \* f n -> n, naked
    Function("f", <<P_Identifier("n")>>, <<Request("n")>>, FALSE, FALSE, TRUE),
    \* f n -> n, quoting
    Function("f", <<P_Identifier("n")>>, <<Request("n")>>, FALSE, TRUE, FALSE),
    \* 'op a b -> a
    Function("'op", <<P_Identifier("a"), P_Identifier("b")>>, <<Request("a")>>,
             FALSE, FALSE, FALSE),
    \* 'op a -> a
    Function("'op", <<P_Identifier("a")>>, <<Request("a")>>, FALSE, FALSE, FALSE),
    \* 'op a b c -> a
    Function("'op", <<P_Identifier("a"), P_Identifier("b"), P_Identifier("c")>>,
             <<Request("a")>>, FALSE, FALSE, FALSE),
    \* 'op -> "zero"
    Function("'op", <<>>, <<String(TxZero)>>, FALSE, FALSE, FALSE) }

CallNodes ==
  { Call("f", <<Number(0)>>), Call("f", <<Number(5)>>), Call("f", <<String(TxHi)>>),
    Call("f", <<>>), Call("g", <<Number(0)>>) }

\* A check that lets every arity up to 2 through.
QuotedArityOkUpTo2(name, arity) ==
  ~(StartsWithApostrophe(name) /\ arity > 2)

\* node.name.startswith('\'') and function.arity not in (1, 2), negated
QuotedArityOk(name, arity) ==
  ~(StartsWithApostrophe(name) /\ arity \notin {1, 2})

\* S.env.get(node.name, False), when it is a bundle
IsVariations(e, name) == name \in DOMAIN e /\ e[name].type = "variations"

\* _visit_node on a Function node: the environment, the heap of bundles and
\* the outcome it leaves.
VisitFunction(e, heap, node) ==
  LET priority == IF node.slurpy THEN SLURPY ELSE SumPriorities(node.params)
      arity == Len(node.params)
      dies(reason) == [env |-> e, bundles |-> heap,
                       out |-> [kind |-> "function", st |-> "die", reason |-> reason,
                                name |-> node.name, arity |-> arity]]
      done(e2, heap2) == [env |-> e2, bundles |-> heap2,
                          out |-> [kind |-> "function", st |-> "ok",
                                   name |-> node.name, arity |-> arity]]
  IN IF ~QuotedArityOk(node.name, arity)
     THEN dies("expected either a prefix or infix")
     ELSE IF IsVariations(e, node.name)
     THEN LET ref == e[node.name].ref
              state == IF node.naked THEN LiveState ELSE CopiedState(e)
              function == RyFunction(state, priority, node)
          IN IF heap[ref].quoting # node.quoting THEN dies("expected to be quoting")
             ELSE IF heap[ref].naked # node.naked THEN dies("expected to be naked")
             ELSE done(e, [heap EXCEPT ![ref].variations = VariationsAdd(@, function)])
     ELSE LET ref == Len(heap) + 1
              e2 == EnvSet(e, node.name, RyVariations(ref))
              state == IF node.naked THEN LiveState ELSE CopiedState(e2)
              function == RyFunction(state, priority, node)
          IN done(e2, Append(heap, NewVariations(node.name, function,
                                                 node.quoting, node.naked)))

\* RyCLI._master: Master(filename), kernel() and load_init(), which records
\* the prelude in MODULE-CACHE
Init ==
  /\ env = Kernel(1, 1)
  /\ bundles = <<>>
  /\ forms = 0
  /\ last = [kind |-> "none"]
  /\ caches = <<{CacheEntry(1, BootPath)}>>
  /\ readers = <<NewReader>>
  /\ pending = [type |-> "idle"]
  /\ lexed = <<>>
  /\ after = <<NewReader.switches>>
  /\ fed = <<>>
  /\ quoted = [st |-> "none"]

\* The node of a form read at the current line.
AtLine(template) == template @@ [line |-> forms + 1]

\* visit: the next top-level form is one of these Function definitions
EvalFunctionOf(templates) ==
  /\ forms < MaxForms
  /\ \E template \in templates :
       LET r == VisitFunction(env, bundles, AtLine(template))
       IN /\ env' = r.env
          /\ bundles' = r.bundles
          /\ last' = r.out
  /\ forms' = forms + 1
  /\ UNCHANGED ioVars

\* visit: the next top-level form is one of these calls of a name
EvalCallOf(nodes) ==
  /\ \E node \in nodes : last' = VisitCall(env, bundles, node)
  /\ UNCHANGED <<env, bundles, forms>>
  /\ UNCHANGED ioVars

EvalFunction == EvalFunctionOf(FunctionNodes)

EvalCall == EvalCallOf(CallNodes)

Next == EvalFunction \/ EvalCall

Spec == Init /\ [][Next]_defVars

-----------------------------------------------------------------------------
(* Objects, instances and assignments. *)

Object(name, properties, block, secret) ==
  [type |-> "Object", name |-> name, properties |-> properties, block |-> block,
   secret |-> secret]

Instance(callee, args) ==
  [type |-> "Instance", callee |-> Request(callee), args |-> args]

Assign(pattern, value) == [type |-> "Assign", pattern |-> pattern, value |-> value]

RECURSIVE SetToSeq(_)
SetToSeq(set) ==
  IF set = {} THEN <<>>
  ELSE LET x == CHOOSE y \in set : TRUE IN <<x>> \o SetToSeq(set \ {x})

\* [*self.env.keys()]: the names bound in the environment, as Python strs.
\* (A dict lists them in insertion order; an environment of the model keeps
\* no order, and the names are listed in a fixed arbitrary one.)
EnvKeys(e) ==
  LET names == SetToSeq(DOMAIN e)
  IN [i \in 1..Len(names) |-> PyStr(names[i])]

\* RyRouteable.__init__
RyRouteable(name, e, extractable) ==
  [type |-> "routeable", name |-> name, env |-> e,
   extractable |-> IF extractable # <<>> THEN extractable ELSE EnvKeys(e)]

RECURSIVE MatchProps(_, _, _, _)
\* for idx, (prop, arg) in enumerate(zip(obj.props, args)): ...
MatchProps(capsule, props, args, k) ==
  IF k > Len(props) \/ k > Len(args) THEN Matched(capsule)
  ELSE Let(_visit_pattern(capsule, props[k], args[k]), LAMBDA r :
         IF r.st = "ok" THEN MatchProps(r.env, props, args, k + 1) ELSE r)

\* _visit_node on an Instance node; what it returns tells, besides the value,
\* the evaluated arguments and the object's number of properties.
VisitInstance(e, node) ==
  Let(VisitValueNode(e, node.callee), LAMBDA obj :
    Let(VisitList(e, node.args), LAMBDA args :
      IF obj.st # "ok" THEN obj
      ELSE IF args.st # "ok" THEN args
      ELSE IF obj.value.type # "object" THEN Die("is not an object")
      ELSE IF Len(args.value) # Len(obj.value.props) THEN Die("expected n properties")
      ELSE Let(MatchProps(obj.value.state.env, obj.value.props, args.value, 1), LAMBDA m :
             CASE m.st = "fail" -> Die("failed to instantiate")
               [] m.st = "die" -> Die(m.reason)
               [] m.st = "crash" -> Crash(m.reason)
               [] m.st = "ok" ->
                    Let(VisitList(m.env, obj.value.block), LAMBDA block :
                      IF block.st # "ok" THEN block
                      ELSE [st |-> "ok",
                            value |-> RyRouteable(obj.value.name, m.env, args.value),
                            args |-> args.value,
                            nprops |-> Len(obj.value.props)]))))

\* _visit_node on the value of an assignment
VisitExpr(e, node) ==
  IF node.type = "Instance" THEN VisitInstance(e, node) ELSE VisitValueNode(e, node)

\* _visit_node on an Object node
VisitObject(e, node) ==
  IF node.secret
  THEN [env |-> e, out |-> [kind |-> "object", st |-> "crash",
                            reason |-> "NameError: RySecretObject"]]
  ELSE [env |-> EnvSet(e, node.name,
                       RyObject(node.name, node.properties, node.block, CopiedState(e))),
        out |-> [kind |-> "object", st |-> "ok"]]

\* _visit_node on an Assign node
VisitAssign(e, node) ==
  Let(VisitExpr(e, node.value), LAMBDA value :
    IF value.st # "ok"
    THEN [env |-> e, out |-> [kind |-> "assign", st |-> value.st, reason |-> value.reason]]
    ELSE Let(_visit_pattern(e, node.pattern, value.value), LAMBDA m :
           [env |-> m.env,
            out |-> IF m.st = "ok"
                    THEN [kind |-> "assign", st |-> "ok", made |-> value,
                          from |-> node.value.type]
                    ELSE [kind |-> "assign",
                          st |-> IF m.st = "fail" THEN "die" ELSE m.st,
                          reason |-> m.reason]]))

\* visit: the next top-level form is one of these Object definitions
EvalObjectOf(nodes) ==
  /\ forms < MaxForms
  /\ \E node \in nodes :
       LET r == VisitObject(env, AtLine(node))
       IN env' = r.env /\ last' = r.out
  /\ forms' = forms + 1
  /\ UNCHANGED bundles
  /\ UNCHANGED ioVars

\* visit: the next top-level form is one of these assignments
EvalAssignOf(nodes) ==
  /\ forms < MaxForms
  /\ \E node \in nodes :
       LET r == VisitAssign(env, AtLine(node))
       IN env' = r.env /\ last' = r.out
  /\ forms' = forms + 1
  /\ UNCHANGED bundles
  /\ UNCHANGED ioVars

ObjectNodes ==
  { \* obj Pair a
    Object("Pair", <<P_Identifier("a")>>, <<>>, FALSE),
    \* obj Unit
    Object("Unit", <<>>, <<>>, FALSE) }

AssignNodes ==
  { \* p = new Pair 5
    Assign(P_Identifier("p"), Instance("Pair", <<Number(5)>>)),
    \* u = new Unit
    Assign(P_Identifier("u"), Instance("Unit", <<>>)),
    \* q = new Pair
    Assign(P_Identifier("q"), Instance("Pair", <<>>)) }

ExtractingFunctionNodes ==
  { \* h (Pair 0) -> "zero"
    Function("h", <<P_Extract("Pair", <<P_Compare(Number(0))>>)>>, <<String(TxZero)>>,
             FALSE, FALSE, FALSE),
    \* h _ -> "other"
    Function("h", <<P_Discard>>, <<String(TxOther)>>, FALSE, FALSE, FALSE),
    \* h a 0 -> a
    Function("h", <<P_Identifier("a"), P_Compare(Number(0))>>, <<Request("a")>>,
             FALSE, FALSE, FALSE),
    \* h x y -> x
    Function("h", <<P_Identifier("x"), P_Identifier("y")>>, <<Request("x")>>,
             FALSE, FALSE, FALSE) }

ExtractingCallNodes ==
  { Call("h", <<Request("p")>>), Call("h", <<Number(5)>>),
    Call("h", <<Number(5), Number(5)>>), Call("h", <<Number(5), Number(0)>>) }

EvalObject == EvalObjectOf(ObjectNodes)

EvalAssign == EvalAssignOf(AssignNodes)

EvalExtractingFunction == EvalFunctionOf(ExtractingFunctionNodes)

EvalExtractingCall == EvalCallOf(ExtractingCallNodes)

NextDispatch ==
  EvalObject \/ EvalAssign \/ EvalExtractingFunction \/ EvalExtractingCall

SpecDispatch == Init /\ [][NextDispatch]_defVars

-----------------------------------------------------------------------------
(* reader.Reader: the lexer. A source is a sequence of lexemes, the pieces  *)
(* the regexes of _progress cut it into (blanks and comments left out); a   *)
(* lexeme has the class of characters it is made of and its text. Which     *)
(* token a lexeme becomes is decided by the switch tables at the time it is *)
(* lexed.                                                                   *)

Word(text) == [kind |-> "word", text |-> text]
Quoted(text) == [kind |-> "quoted", text |-> text]
BuiltinName(text) == [kind |-> "builtin", text |-> text]
Digits(text) == [kind |-> "num", text |-> text]
Literal(chars) == [kind |-> "str", text |-> chars]
Sym(text) == [kind |-> "sym", text |-> text]
NL == [kind |-> "nl", text |-> ""]
EOF == [kind |-> "eof", text |-> ""]

\* str.upper on the words the sources hold
Upper(text) ==
  CASE text = "needs" -> "NEEDS"
    [] text = "hidden" -> "HIDDEN"
    [] text = "exposed" -> "EXPOSED"
    [] text = "op" -> "OP"
    [] text = "division" -> "DIVISION"
    [] OTHER -> text

\* str.lower on token types
Lower(type) ==
  CASE type = "NEEDS" -> "needs"
    [] type = "HIDDEN" -> "hidden"
    [] type = "EXPOSED" -> "exposed"
    [] type = "OP" -> "op"
    [] type = "ID" -> "id"
    [] OTHER -> type

\* Fraction(text) on the number literals the sources hold
Fraction(text) ==
  CASE text = "0" -> 0
    [] text = "1" -> 1
    [] text = "2" -> 2
    [] text = "5" -> 5

\* _progress on one lexeme: the token it becomes, of type "?" when no rule of
\* the lexer captures it (ReaderError, uncaptured lexeme)
TokenOf(r, lexeme) ==
  CASE lexeme.text \in DOMAIN r.switches.tokens ->
         Token(r.switches.tokens[lexeme.text], lexeme.text)
    [] lexeme.kind = "word" ->
         IF lexeme.text \in r.switches.keywords
         THEN Token(Upper(lexeme.text), lexeme.text)
         ELSE Token("ID", lexeme.text)
    [] lexeme.kind = "quoted" -> Token("ID", lexeme.text)
    [] lexeme.kind = "builtin" -> Token("BUILTIN", lexeme.text)
    [] lexeme.kind = "num" -> Token("NUM", lexeme.text)
    [] lexeme.kind = "str" -> Token("STR", lexeme.text)
    [] lexeme.kind = "sym" ->
         IF lexeme.text \in r.symbol_regex
         THEN Token(lexeme.text, lexeme.text)
         ELSE Token("?", lexeme.text)
    [] lexeme.kind = "nl" -> Token("NL", "")
    [] lexeme.kind = "eof" -> Token("EOF", "")

\* The token at index i of the source: self.token once the lexer has read i
\* lexemes.
Tok(r, i) == TokenOf(r, r.source[i])

\* self.line once the lexer has read i lexemes
LineAt(r, i) == 1 + Cardinality({j \in 1..i : r.source[j].kind = "nl"})

-----------------------------------------------------------------------------
(* reader.Reader: the parser, on the terms whose first token is NEEDS, an   *)
(* identifier, a builtin, a number or a string, without brackets, blocks,   *)
(* dots or "!". A unit takes the index of the current token and returns     *)
(* st = "ok" with a node and the index of the token it stopped at, "no"     *)
(* (False, the caller restores the position) or "err" (ReaderError).        *)

Parsed(node, i) == [st |-> "ok", node |-> node, i |-> i]
NoParse(i) == [st |-> "no", i |-> i]
ReaderError(reason, i) == [st |-> "err", reason |-> reason, i |-> i]

Path(parent, line) == [type |-> "Path", parent |-> parent, path |-> <<>>, line |-> line]
Builtin(name, line) == [type |-> "Builtin", name |-> name, line |-> line]
Needs(module, hidden, expose, line) ==
  [type |-> "Needs", module |-> module, hidden |-> hidden, expose |-> expose,
   line |-> line]

\* _value, on the token it consumes
ValueOf(token, line, i) ==
  CASE token.type = "ID" -> Parsed(Path(token.value, line), i + 1)
    [] token.type = "BUILTIN" -> Parsed(Builtin(token.value, line), i + 1)
    [] token.type = "STR" -> Parsed(String(token.value) @@ [line |-> line], i + 1)
    [] token.type = "NUM" ->
         Parsed(Number(Fraction(token.value)) @@ [line |-> line], i + 1)
    [] OTHER -> NoParse(i)

\* _value
_value(r, i) == ValueOf(Tok(r, i), LineAt(r, i), i)

RECURSIVE Values(_, _, _)
\* _call: the loop that collects the arguments
Values(r, i, args) ==
  Let(_value(r, i), LAMBDA arg :
    IF arg.st = "ok"
    THEN Values(r, arg.i, Append(args, arg.node))
    ELSE [args |-> args, i |-> i])

\* _call
_call(r, i) ==
  IF Tok(r, i).type \notin {"ID", "NEW", "BUILTIN", "("}
  THEN _value(r, i)
  ELSE Let(_value(r, i), LAMBDA callee :
       Let(Values(r, callee.i, <<>>), LAMBDA rest :
         IF rest.args = <<>>
         THEN callee
         ELSE Parsed([type |-> "Call", callee |-> callee.node, args |-> rest.args,
                      line |-> LineAt(r, i)], rest.i)))

RECURSIVE _prefix(_, _)
\* _prefix
_prefix(r, i) ==
  Let(Tok(r, i), LAMBDA operator :
    IF operator.type \in r.switches.prefixes
    THEN Let(_prefix(r, i + 1), LAMBDA operand :
           CASE operand.st = "no" ->
                  ReaderError("expected a value to follow prefix", operand.i)
             [] operand.st = "err" -> operand
             [] OTHER ->
                  Parsed([type |-> "Call",
                          callee |-> Path("'" \o Lower(operator.value), LineAt(r, i)),
                          args |-> <<operand.node>>, line |-> LineAt(r, i)],
                         operand.i))
    ELSE _call(r, i))

\* switches['precedence'].get(type, (0, 0))
PrecedenceOf(r, type) ==
  IF type \in DOMAIN r.switches.precedence
  THEN r.switches.precedence[type]
  ELSE <<0, 0>>

RECURSIVE _infix(_, _, _)
RECURSIVE InfixLoop(_, _, _, _, _)
\* A loop that recurses with the operator's precedence whatever its
\* associativity: every operator groups to the left.
InfixLoopLeftOnly(r, left, i, depth, line) ==
  Let(Tok(r, i).type, LAMBDA type :
  Let(PrecedenceOf(r, type), LAMBDA found :
    IF depth >= found[2]
    THEN Parsed(left, i)
    ELSE Let(_infix(r, i + 1, found[2]),
             LAMBDA right :
               CASE right.st = "no" ->
                      ReaderError("expected right hand side of an expression", right.i)
                 [] right.st = "err" -> right
                 [] OTHER ->
                      InfixLoop(r,
                                [type |-> "Call",
                                 callee |-> Path("'" \o Lower(type), line),
                                 args |-> <<left, right.node>>, line |-> line],
                                right.i, depth, line))))

\* _infix: the loop over the operators that follow the left operand
InfixLoop(r, left, i, depth, line) ==
  Let(Tok(r, i).type, LAMBDA type :
  Let(PrecedenceOf(r, type), LAMBDA found :
    IF depth >= found[2]
    THEN Parsed(left, i)
    ELSE Let(_infix(r, i + 1, found[2] - (IF found[1] = "right" THEN 1 ELSE 0)),
             LAMBDA right :
               CASE right.st = "no" ->
                      ReaderError("expected right hand side of an expression", right.i)
                 [] right.st = "err" -> right
                 [] OTHER ->
                      InfixLoop(r,
                                [type |-> "Call",
                                 callee |-> Path("'" \o Lower(type), line),
                                 args |-> <<left, right.node>>, line |-> line],
                                right.i, depth, line))))

\* _infix
_infix(r, i, depth) ==
  Let(_prefix(r, i), LAMBDA left :
    IF left.st # "ok" THEN left
    ELSE InfixLoop(r, left.node, left.i, depth, LineAt(r, i)))

\* _pattern, on the token it consumes
PatternOf(token, line, i) ==
  CASE token.type = "ID" -> Parsed(P_Identifier(token.value) @@ [line |-> line], i + 1)
    [] token.type = "NUM" ->
         Parsed(P_Compare(Number(Fraction(token.value)) @@ [line |-> line])
                  @@ [line |-> line], i + 1)
    [] token.type = "STR" ->
         Parsed(P_Compare(String(token.value) @@ [line |-> line])
                  @@ [line |-> line], i + 1)
    [] token.type = "_" -> Parsed(P_Discard @@ [line |-> line], i + 1)
    [] OTHER -> NoParse(i)

\* _pattern
_pattern(r, i) == PatternOf(Tok(r, i), LineAt(r, i), i)

RECURSIVE Params(_, _, _)
\* _kleene_until('->', self._pattern)
Params(r, i, items) ==
  IF Tok(r, i).type = "->"
  THEN [st |-> "ok", items |-> items, i |-> i + 1]
  ELSE Let(_pattern(r, i), LAMBDA item :
         IF item.st = "ok"
         THEN Params(r, item.i, Append(items, item.node))
         ELSE [st |-> "no", i |-> item.i])

\* _function: the node has the properties name, params and body
_function(r, i) ==
  Let(Tok(r, i), LAMBDA name :
    IF name.type # "ID"
    THEN NoParse(i)
    ELSE Let(Params(r, i + 1, <<>>), LAMBDA params :
           IF params.st # "ok"
           THEN NoParse(params.i)
           ELSE Let(_infix(r, params.i, 0), LAMBDA body :
                  CASE body.st = "no" -> ReaderError("expected function body", body.i)
                    [] body.st = "err" -> body
                    [] OTHER ->
                         Parsed([type |-> "Function", name |-> name.value,
                                 params |-> params.items, body |-> <<body.node>>,
                                 line |-> LineAt(r, i)], body.i))))

\* _assign
_assign(r, i) ==
  Let(_pattern(r, i), LAMBDA pattern :
    IF pattern.st # "ok" \/ Tok(r, pattern.i).type # "="
    THEN NoParse(pattern.i)
    ELSE Let(_infix(r, pattern.i + 1, 0), LAMBDA value :
           CASE value.st = "no" -> ReaderError("expected a value", value.i)
             [] value.st = "err" -> value
             [] OTHER ->
                  Parsed(Assign(pattern.node, value.node) @@ [line |-> LineAt(r, i)],
                         value.i)))

\* _needs, once NEEDS is consumed: j is the index after HIDDEN, if any
NeedsFrom(r, i, j) ==
  Let(Tok(r, j), LAMBDA module :
  Let(IF Tok(r, j + 1).type = "EXPOSED" THEN j + 2 ELSE j + 1, LAMBDA k :
    IF module.type \notin {"ID", "STR"}
    THEN ReaderError("expected dependency name", j)
    ELSE Parsed(Needs(module.value, j = i + 2, k = j + 2, LineAt(r, i)), k)))

\* _needs
_needs(r, i) ==
  IF Tok(r, i).type # "NEEDS"
  THEN NoParse(i)
  ELSE NeedsFrom(r, i, IF Tok(r, i + 1).type = "HIDDEN" THEN i + 2 ELSE i + 1)

RECURSIVE _term(_, _)
RECURSIVE BlockTerms(_, _, _)

\* tuple(body): the nodes of a division
Tuple(items) == [type |-> "tuple", items |-> items]

\* not node, for what Reader.next returned
Falsy(node) == node.type = "tuple" /\ node.items = <<>>

\* Reader.next(stopper), once the term is read
AfterTermTo(r, term, stopper) ==
  CASE term.st = "no" -> ReaderError("expected a valid term or EOF", term.i)
    [] term.st = "err" -> term
    [] Tok(r, term.i).type = "NL" -> Parsed(term.node, term.i + 1)
    [] Tok(r, term.i).type = stopper -> Parsed(term.node, term.i)
    [] term.node.type = "tuple" -> ReaderError("two or more terms in a row", term.i)
    [] OTHER -> ReaderError("strange text follows term", term.i)

\* Reader.next(stopper): after a newline the call is self.next(), whose
\* stopper is EOF
NextTo(r, i, stopper) ==
  CASE Tok(r, i).type = stopper -> [st |-> "end", i |-> i]
    [] Tok(r, i).type = "NL" ->
         IF Tok(r, i + 1).type = "EOF" THEN [st |-> "end", i |-> i + 1]
         ELSE AfterTermTo(r, _term(r, i + 1), "EOF")
    [] OTHER -> AfterTermTo(r, _term(r, i), stopper)

\* _block: while term := self.next('}'): terms.append(term)
BlockTerms(r, i, terms) ==
  Let(NextTo(r, i, "}"), LAMBDA term :
    CASE term.st = "err" -> term
      [] term.st = "ok" /\ ~Falsy(term.node) ->
           BlockTerms(r, term.i, Append(terms, term.node))
      [] Tok(r, term.i).type = "}" -> Parsed(terms, term.i + 1)
      [] OTHER -> ReaderError("unexpected term while in block", term.i))

\* _block
_block(r, i) == IF Tok(r, i).type = "{" THEN BlockTerms(r, i + 1, <<>>) ELSE NoParse(i)

\* _division, from the token after the identifier it ignores
DivisionFrom(r, i) ==
  IF Tok(r, i).type # "DIVISION" THEN NoParse(i)
  ELSE Let(_block(r, i + 1), LAMBDA body :
         CASE body.st = "no" -> ReaderError("expected division body", body.i)
           [] body.st = "err" -> body
           [] OTHER -> Parsed(Tuple(body.node), body.i))

\* _division
_division(r, i) == DivisionFrom(r, IF Tok(r, i).type = "ID" THEN i + 1 ELSE i)

\* _term: _any_of over the units, the first that does not return False; the
\* units between _division and _needs and between _needs and _function
\* return False on these terms.
_term(r, i) ==
  Let(_division(r, i), LAMBDA division :
    IF division.st # "no" THEN division
    ELSE Let(_needs(r, i), LAMBDA needs :
           IF needs.st # "no" THEN needs
           ELSE Let(_function(r, i), LAMBDA function :
                  IF function.st # "no" THEN function
                  ELSE Let(_assign(r, i), LAMBDA assign :
                         IF assign.st # "no" THEN assign ELSE _infix(r, i, 0)))))

\* Reader.next, from the term on: the trailing _consume('NL') reads the
\* lexeme that follows the newline
AfterTerm(r, term) ==
  CASE term.st = "no" -> ReaderError("expected a valid term or EOF", term.i)
    [] term.st = "err" -> term
    [] Tok(r, term.i).type = "NL" -> Parsed(term.node, term.i + 1)
    [] Tok(r, term.i).type = "EOF" -> Parsed(term.node, term.i)
    [] term.node.type = "tuple" -> ReaderError("two or more terms in a row", term.i)
    [] OTHER -> ReaderError("strange text follows term", term.i)

\* Reader.next, from the first token that is not a newline on
NextFrom(r, first) ==
  IF Tok(r, first).type = "EOF"
  THEN [st |-> "end", i |-> first]
  ELSE AfterTerm(r, _term(r, first))

\* _progress raises ReaderError on the first lexeme it reads that no rule
\* captures
Lexed(r, start, raw) ==
  Let({i \in start..raw.i : Tok(r, i).type = "?"}, LAMBDA uncaptured :
    IF uncaptured = {}
    THEN raw
    ELSE ReaderError("uncaptured lexeme",
                     CHOOSE i \in uncaptured : \A j \in uncaptured : i <= j))

\* The reader with index i of the source as its current token
AtToken(r, i) == [r EXCEPT !.pos = i, !.token = Tok(r, i)]

\* Reader.next: the result, and the reader as the call leaves it. st = "ok"
\* with the term, "end" (False: the stopper was reached) or "err"
\* (ReaderError); the last lexeme the call read is at index out.i.
ReaderNext(r) ==
  Let(IF r.token.type = "BOL" THEN 1 ELSE r.pos, LAMBDA start :
  Let(Lexed(r, start,
            NextFrom(r, IF Tok(r, start).type = "NL" THEN start + 1 ELSE start)),
      LAMBDA out : [out |-> out, reader |-> AtToken(r, out.i)]))

-----------------------------------------------------------------------------
(* The evaluator on the nodes the reader returns, for a state S of a master *)
(* in a world W of the objects the masters share: the default environment   *)
(* of RyState.__init__, which every Master's first state holds, and the     *)
(* heaps. S.shared says that S.env is that default environment.             *)

PyNone == [type |-> "python None"]

World(e, bs, cs, rs, log) ==
  [env |-> e, bundles |-> bs, caches |-> cs, readers |-> rs, fed |-> log]

SharedState(master) == [master |-> master, shared |-> TRUE, own |-> <<>>]
OwnState(master, e) == [master |-> master, shared |-> FALSE, own |-> e]

\* S.env
EnvOf(W, S) == IF S.shared THEN W.env ELSE S.own

Result(W, S, out) == [W |-> W, S |-> S, out |-> out]

\* S.env after a handler changed it
WithEnv(W, S, e, out) ==
  IF S.shared
  THEN Result([W EXCEPT !.env = e], S, out)
  ELSE Result(W, [S EXCEPT !.own = e], out)

\* Master._k_set_guard_precedence, called through the RyBuiltin `callee`
\* with the values `args`
SetGuardPrecedence(W, S, callee, args) ==
  CASE callee.st # "ok" -> Result(W, S, callee)
    [] args.st # "ok" -> Result(W, S, args)
    [] Len(args.value) # 1 -> Result(W, S, Die("python exception: TypeError"))
    [] args.value[1].type # "num" ->
         Result(W, S, Die("set-guard-precedence (no. 1) expects a num"))
    [] OTHER ->
         Result([W EXCEPT !.readers[callee.value.value.master].switches =
                            ("guard-precedence" :> args.value[1].value) @@ @],
                S, Ok(PyNone))

\* _visit_node on a Call node whose callee is a Builtin or a Path node
CallBuiltin(W, S, nd) ==
  SetGuardPrecedence(W, S, VisitValueNode(EnvOf(W, S), nd.callee),
                     VisitList(EnvOf(W, S), nd.args))

RECURSIVE Split(_, _)
\* str.split(sep)
Split(text, sep) ==
  IF \A i \in 1..Len(text) : text[i] # sep
  THEN <<text>>
  ELSE Let(CHOOSE i \in 1..Len(text) : text[i] = sep /\ \A j \in 1..(i - 1) : text[j] # sep,
           LAMBDA k : <<SubSeq(text, 1, k - 1)>>
                        \o Split(SubSeq(text, k + 1, Len(text)), sep))

\* Path(location).absolute(): the working directory and the basis
Absolute(location) ==
  CASE location = <<".">> -> "/w"
    [] location = <<"b">> -> "/b"

\* (Path(location) / f'{"_" if hidden else ""}{module}.ry').absolute()
ModulePath(location, hidden, module) ==
  Absolute(location) \o "/" \o (IF hidden THEN "_" ELSE "") \o module \o ".ry"

\* The prelude basis/boot.ry, as lexemes: a file that defines nothing
Prelude == <<>>

\* The module files that exist, with their text as lexemes:
\*   a.ry: x = 5      b.ry: y = 1      c.ry: needs a      _a.ry: x = 2
Files ==
  ("/w/a.ry" :> <<Word("x"), Sym("="), Digits("5")>>)
  @@ ("/w/b.ry" :> <<Word("y"), Sym("="), Digits("1")>>)
  @@ ("/w/c.ry" :> <<Word("needs"), Word("a")>>)
  @@ ("/w/_a.ry" :> <<Word("x"), Sym("="), Digits("2")>>)
  @@ (BootPath :> Prelude)

\* node.module.split('/')[-1].capitalize()
Capitalize(module) ==
  CASE module = "a" -> "A"
    [] module = "b" -> "B"
    [] module = "c" -> "C"
    [] module = "boot" -> "Boot"
    [] OTHER -> module

\* e.startswith('_'): no name the lexer reads as an identifier does
StartsWithUnderscore(name) == name \in {}

\* A fresh RyStr object
NewObj(W) == 1 + Cardinality(UNION {W.caches[i] : i \in 1..Len(W.caches)})

\* Reader.update
Update(r, source) ==
  [r EXCEPT !.pos = 0, !.token = Token("BOL", ""), !.source = source \o <<NL, EOF>>]

\* Reader.merge, on the switches of the two readers: update of each of the
\* other's switches into this reader's; a switch this reader lacks is a
\* KeyError and an int has no update
MergeSwitches(mine, other) ==
  [switches |-> [mine EXCEPT !.tokens = other.tokens @@ @,
                             !.symbols = @ \cup other.symbols,
                             !.prefixes = @ \cup other.prefixes,
                             !.keywords = @ \cup other.keywords,
                             !.precedence = other.precedence @@ @],
   st |-> CASE "guard-precedence" \notin DOMAIN other -> "ok"
            [] "guard-precedence" \notin DOMAIN mine -> "KeyError"
            [] OTHER -> "AttributeError"]

\* S.reader.merge(master.reader)
Merge(W, into, from) ==
  Let(MergeSwitches(W.readers[into].switches, W.readers[from].switches),
      LAMBDA merged : [W |-> [W EXCEPT !.readers[into].switches = merged.switches],
                       st |-> merged.st])

RECURSIVE VisitNode(_, _, _)
RECURSIVE FeedLoop(_, _)

\* Master(path), which holds the default environment, and master.kernel()
MakeMaster(W) ==
  [W EXCEPT !.readers = Append(@, NewReader),
            !.caches = Append(@, {}),
            !.env = Kernel(Len(W.readers) + 1, Len(W.caches) + 1) @@ @]

\* master.boot(): the prelude is recorded in the master's MODULE-CACHE and fed
Boot(W, master) ==
  FeedLoop([W EXCEPT !.caches[W.env["MODULE-CACHE"].value.set] =
                       @ \cup {CacheEntry(NewObj(W), BootPath)},
                     !.readers[master] = Update(@, Prelude)],
           SharedState(master))

\* master.state = master.state.copy(); master.feed(source)
FeedModule(W, master, path) ==
  FeedLoop([W EXCEPT !.readers[master] = Update(@, Files[path])],
           OwnState(master, W.env))

\* exports: the bindings of the module's environment that are not underscored
Exports(e) == [n \in {m \in DOMAIN e : ~StartsWithUnderscore(m)} |-> e[n]]

\* What a Needs node returns, with what it did
NeedsDone(nd, path, cached) ==
  Ok(RyNothing) @@ [kind |-> "needs", path |-> path, expose |-> nd.expose,
                    cached |-> cached]

\* S.env.update(exports), and the update of the set MODULE-CACHE is bound to
\* then with the entries of `cache` and a new RyStr(path)
Expose(W, S, nd, path, cache, e) ==
  WithEnv([W EXCEPT !.caches[e["MODULE-CACHE"].value.set] =
                      @ \cup W.caches[cache] \cup {CacheEntry(NewObj(W), path)}],
          S, e, NeedsDone(nd, path, FALSE))

\* A new RyStr(path) added to the set MODULE-CACHE is bound to in S.env, and
\* the module bound as a routeable
BindModule(W, S, nd, path, exports) ==
  WithEnv([W EXCEPT !.caches[EnvOf(W, S)["MODULE-CACHE"].value.set] =
                      @ \cup {CacheEntry(NewObj(W), path)}],
          S,
          EnvSet(EnvOf(W, S), Capitalize(nd.module),
                 RyRouteable(nd.module, exports, <<>>)),
          NeedsDone(nd, path, FALSE))

\* _visit_node on a Needs node, after master.feed(source)
Import(W, S, nd, path, cache, child, exports) ==
  Let(Merge(W, S.master, child), LAMBDA merge :
    CASE merge.st # "ok" -> Result(merge.W, S, Crash(merge.st))
      [] nd.expose ->
           Expose(merge.W, S, nd, path, cache, exports @@ EnvOf(merge.W, S))
      [] OTHER -> BindModule(merge.W, S, nd, path, exports))

\* _visit_node on a Needs node whose module file exists and is not in `cache`
LoadModule(W, S, nd, path, cache) ==
  Let(Len(W.readers) + 1, LAMBDA child :
  Let(Boot(MakeMaster(W), child), LAMBDA booted :
    IF booted.out.st # "ok"
    THEN Result(booted.W, S, Crash("RyError"))
    ELSE Let(FeedModule(booted.W, child, path), LAMBDA run :
         Let([run.W EXCEPT !.fed = Append(@, [by |-> S.master, path |-> path,
                                              env |-> run.S.own])],
             LAMBDA logged :
               IF run.out.st # "ok"
               THEN Result(logged, S, Crash("RyError"))
               ELSE Import(logged, S, nd, path, cache, child, Exports(run.S.own))))))

\* _visit_node on a Needs node, from the first location of PATH where the
\* module file exists on
NeedsAt(W, S, nd, path, cache) ==
  IF path \in {entry.value : entry \in W.caches[cache]}
  THEN Result(W, S, NeedsDone(nd, path, TRUE))
  ELSE LoadModule(W, S, nd, path, cache)

\* The locations of PATH where the module file exists
Found(locations, nd) ==
  {k \in 1..Len(locations) :
     ModulePath(locations[k], nd.hidden, nd.module) \in DOMAIN Files}

\* _visit_node on a Needs node
VisitNeeds(W, S, nd) ==
  Let(Split(EnvOf(W, S)["PATH"].value, ";"), LAMBDA locations :
  Let(Found(locations, nd), LAMBDA found :
    IF found = {}
    THEN Result(W, S, Die("module not found"))
    ELSE NeedsAt(W, S, nd,
                 ModulePath(locations[CHOOSE k \in found : \A j \in found : k <= j],
                            nd.hidden, nd.module),
                 EnvOf(W, S)["MODULE-CACHE"].value.set)))

\* _visit_node on a Function node: the reader's node has no property slurpy
VisitFunctionNode(W, S, nd) ==
  IF "slurpy" \notin DOMAIN nd
  THEN Result(W, S, Crash("KeyError: slurpy"))
  ELSE Let(VisitFunction(EnvOf(W, S), W.bundles, nd), LAMBDA r :
         WithEnv([W EXCEPT !.bundles = r.bundles], S, r.env, r.out))

RECURSIVE VisitNodes(_, _, _)
\* [_visit_node(S, x) for x in node]: a list of the values
VisitNodes(W, S, nodes) ==
  IF nodes = <<>> THEN Result(W, S, Ok([type |-> "python list", items |-> <<>>]))
  ELSE Let(VisitNode(W, S, Head(nodes)), LAMBDA first :
         IF first.out.st # "ok" THEN first
         ELSE Let(VisitNodes(first.W, first.S, Tail(nodes)), LAMBDA rest :
                IF rest.out.st # "ok" THEN rest
                ELSE [rest EXCEPT !.out.value.items = <<first.out.value>> \o @]))

\* _visit_node on a node the reader returned
VisitNode(W, S, nd) ==
  CASE nd.type = "tuple" -> VisitNodes(W, S, nd.items)
    [] nd.type = "Needs" -> VisitNeeds(W, S, nd)
    [] nd.type = "Function" -> VisitFunctionNode(W, S, nd)
    [] nd.type = "Assign" ->
         Let(VisitAssign(EnvOf(W, S), nd), LAMBDA r : WithEnv(W, S, r.env, r.out))
    [] nd.type = "Call" -> CallBuiltin(W, S, nd)
    [] OTHER -> Result(W, S, VisitValueNode(EnvOf(W, S), nd))

\* visit, once Reader.next has returned
Visited(W, S, read) ==
  CASE read.out.st = "end" -> Result(W, S, Ok(PyNone))
    [] read.out.st = "err" -> Result(W, S, read.out)
    [] Falsy(read.out.node) -> Result(W, S, Ok(PyNone))
    [] OTHER ->
         Let(VisitNode(W, S, read.out.node), LAMBDA done :
           IF done.out.st # "ok" THEN done ELSE FeedLoop(done.W, done.S))

\* visit, from a call of Reader.next on: the loop runs to the end of the
\* source, or to the first error
FeedLoop(W, S) ==
  Let(ReaderNext(W.readers[S.master]), LAMBDA read :
    Visited([W EXCEPT !.readers[S.master] = read.reader], S, read))

-----------------------------------------------------------------------------
(* machine.visit on the root master: Master.feed updates the reader, then   *)
(* the loop calls Reader.next and _visit_node in turn.                      *)

\* The sources of one more of these lines
Longer(programs, lines) ==
  programs \cup {(IF p = <<>> THEN <<>> ELSE p \o <<NL>>) \o line :
                   p \in programs, line \in lines}

RECURSIVE Programs(_, _)
\* The sources of at most n of these lines
Programs(lines, n) ==
  IF n = 0 THEN {<<>>} ELSE Longer(Programs(lines, n - 1), lines)

\* Master.feed: Reader.update
FeedOf(lines) ==
  /\ pending.type = "idle"
  /\ \E source \in Programs(lines, MaxForms) :
       readers' = [readers EXCEPT ![1] = Update(@, source)]
  /\ pending' = [type |-> "next"]
  /\ UNCHANGED <<env, bundles, forms, last, caches, lexed, after, fed, quoted>>

\* visit: node = state.reader.next(), with what the call did
ReadAs(read) ==
  /\ readers' = [readers EXCEPT ![1] = read.reader]
  /\ lexed' = lexed \o [i \in 1..(read.out.i - Len(lexed)) |->
                          [evaluated |-> forms, switches |-> readers[1].switches]]
  /\ pending' = CASE read.out.st = "ok" ->
                       \* if not node: break
                       IF Falsy(read.out.node) THEN [type |-> "done"]
                       ELSE read.out.node
                  [] read.out.st = "end" -> [type |-> "done"]
                  [] OTHER -> [type |-> "raised"]
  /\ last' = [kind |-> "read", st |-> read.out.st]
  /\ UNCHANGED <<env, bundles, forms, caches, after, fed, quoted>>

\* visit: node = state.reader.next()
Read ==
  /\ pending.type = "next"
  /\ ReadAs(ReaderNext(readers[1]))

\* visit: last = _visit_node(state, node), with what the call did
EvaluateAs(done) ==
  /\ env' = done.W.env
  /\ bundles' = done.W.bundles
  /\ caches' = done.W.caches
  /\ readers' = done.W.readers
  /\ fed' = done.W.fed
  /\ after' = Append(after, done.W.readers[1].switches)
  /\ last' = done.out @@ [kind |-> "eval"]
  /\ pending' = IF done.out.st = "ok" THEN [type |-> "next"] ELSE [type |-> "raised"]
  /\ forms' = forms + 1
  /\ UNCHANGED <<lexed, quoted>>

\* visit: last = _visit_node(state, node)
Evaluate ==
  /\ pending.type \notin {"idle", "next", "done", "raised"}
  /\ EvaluateAs(VisitNode(World(env, bundles, caches, readers, fed),
                          SharedState(1), pending))

\* The lines of the sources of the reader specification:
\*   5    #:set-guard-precedence 2    'op a b -> a    a op b    1 op 2
\*   x = 5    1 @ 2
ReaderLines ==
  { <<Digits("5")>>,
    <<BuiltinName("set-guard-precedence"), Digits("2")>>,
    <<Quoted("'op"), Word("a"), Word("b"), Sym("->"), Word("a")>>,
    <<Word("a"), Word("op"), Word("b")>>,
    <<Digits("1"), Word("op"), Digits("2")>>,
    <<Word("x"), Sym("="), Digits("5")>>,
    <<Digits("1"), Sym("@"), Digits("2")>> }

FeedReader == FeedOf(ReaderLines)

NextReader == FeedReader \/ Read \/ Evaluate

SpecReader == Init /\ [][NextReader]_vars

\* The lines of the sources of the modules specification:
\*   needs a    needs b    needs a exposed    needs c exposed
\*   needs hidden a    needs boot    needs z
NeedsLines ==
  { <<Word("needs"), Word("a")>>,
    <<Word("needs"), Word("b")>>,
    <<Word("needs"), Word("a"), Word("exposed")>>,
    <<Word("needs"), Word("c"), Word("exposed")>>,
    <<Word("needs"), Word("hidden"), Word("a")>>,
    <<Word("needs"), Word("boot")>>,
    <<Word("needs"), Word("z")>> }

FeedNeeds == FeedOf(NeedsLines)

NextNeeds == FeedNeeds \/ Read \/ Evaluate

SpecNeeds == Init /\ [][NextNeeds]_vars

-----------------------------------------------------------------------------
(* Properties of the definitions specification. *)

Variations(ref) == bundles[ref].variations

\* C1: after any sequence of Function definitions every bundle lists its
\* variations in non-increasing order of priority: each adjacent pair has the
\* earlier priority >= the later one.
C1_SortedDescending ==
  \A ref \in 1..Len(bundles) :
    \A i \in 1..(Len(Variations(ref)) - 1) :
      Variations(ref)[i].priority >= Variations(ref)[i + 1].priority

\* A bundle in which a variation defined later stands ahead of one defined
\* earlier, because its priority is higher.
C1_Witness ==
  \E ref \in 1..Len(bundles) :
    \E i \in 1..(Len(Variations(ref)) - 1) :
      /\ Variations(ref)[i].line > Variations(ref)[i + 1].line
      /\ Variations(ref)[i].priority > Variations(ref)[i + 1].priority

\* C2 as claimed: every bundle is sorted strictly, so that no two variations
\* of a bundle have equal priority.
C2_StrictlyDescending ==
  \A ref \in 1..Len(bundles) :
    \A i \in 1..(Len(Variations(ref)) - 1) :
      Variations(ref)[i].priority > Variations(ref)[i + 1].priority

\* C2: every bundle is sorted by priority, descending but not strictly:
\* of two variations the one with the higher priority comes first, and
\* variations of equal priority may share a bundle and stay in the order of
\* their definition.
C2_DescendingStable ==
  \A ref \in 1..Len(bundles) :
    \A i, j \in 1..Len(Variations(ref)) :
      i < j =>
        \/ Variations(ref)[i].priority > Variations(ref)[j].priority
        \/ /\ Variations(ref)[i].priority = Variations(ref)[j].priority
           /\ Variations(ref)[i].line < Variations(ref)[j].line

\* A bundle holding two variations of equal priority next to a third of
\* another priority.
C2_Witness ==
  \E ref \in 1..Len(bundles) :
    /\ \E i, j \in 1..Len(Variations(ref)) :
         i < j /\ Variations(ref)[i].priority = Variations(ref)[j].priority
    /\ \E i, j \in 1..Len(Variations(ref)) :
         Variations(ref)[i].priority # Variations(ref)[j].priority

\* The three definitions of the dispatch scenario, in the order given.
IsScenarioBundle(ref) ==
  /\ Len(Variations(ref)) = 3
  /\ bundles[ref].name = "f"
  /\ \E a, b, c \in 1..3 :
       /\ Variations(ref)[a].line = 1
       /\ Variations(ref)[a].params = <<P_Compare(Number(0))>>
       /\ Variations(ref)[a].body = <<String(TxZero)>>
       /\ Variations(ref)[b].line = 2
       /\ Variations(ref)[b].params = <<P_Extract("num", <<P_Identifier("n")>>)>>
       /\ Variations(ref)[b].body = <<String(TxNum)>>
       /\ Variations(ref)[c].line = 3
       /\ Variations(ref)[c].params = <<P_Discard>>
       /\ Variations(ref)[c].body = <<String(TxOther)>>

ScenarioCall(arg) ==
  /\ last.kind = "call"
  /\ "ref" \in DOMAIN last
  /\ IsScenarioBundle(last.ref)
  /\ last.args = <<arg>>

Returns(text) ==
  /\ last.st = "done"
  /\ last.result = Ok(RyStr(text))

\* C4 as claimed: with `f 0 -> "zero"`, `f (num n) -> "num"`, `f _ -> "other"`
\* defined in this order in the kernel environment, `f 0` returns "zero",
\* `f 5` returns "num" and `f "hi"` returns "other".
C4_DispatchScenario ==
  /\ ScenarioCall(RyNum(0)) => Returns(TxZero)
  /\ ScenarioCall(RyNum(5)) => Returns(TxNum)
  /\ ScenarioCall(RyStr(TxHi)) => Returns(TxOther)

\* C10: no variation whose name starts with an apostrophe has an arity other
\* than 1 or 2, and a Function definition that dies for that arity leaves the
\* environment and every bundle as they were.
C10_QuotedArity ==
  [][/\ \A ref \in 1..Len(bundles') :
          \A i \in 1..Len(bundles'[ref].variations) :
            StartsWithApostrophe(bundles'[ref].variations[i].name)
              => bundles'[ref].variations[i].arity \in {1, 2}
     /\ (/\ last'.kind = "function"
         /\ StartsWithApostrophe(last'.name)
         /\ last'.arity \notin {1, 2})
        => (last'.st = "die" /\ env' = env /\ bundles' = bundles)]_defVars

\* A quoted definition of arity 3 has just died while a bundle of that name
\* exists.
C10_Witness ==
  /\ last.kind = "function"
  /\ last.st = "die"
  /\ StartsWithApostrophe(last.name)
  /\ last.arity = 3
  /\ IsVariations(env, last.name)

-----------------------------------------------------------------------------
(* Properties of call dispatch and of instantiation. *)

RECURSIVE BoundNames(_)
\* The names the patterns of a list bind when they match.
BoundNames(patterns) ==
  IF patterns = <<>> THEN {}
  ELSE LET p == Head(patterns)
           own == CASE p.type = "P_Identifier" -> {p.name}
                    [] p.type = "P_Guard" -> {p.param}
                    [] p.type = "P_Extract" -> BoundNames(p.fields)
                    [] OTHER -> {}
       IN own \cup BoundNames(Tail(patterns))

\* The variation is applicable to the arguments.
Applicable(variation, args) ==
  variation.priority = SLURPY \/ variation.arity = Len(args)

\* The variation is applicable and each of its parameter patterns matches
\* its argument.
Qualifies(variation, args) ==
  /\ Applicable(variation, args)
  /\ IF variation.priority = SLURPY
     THEN _visit_pattern(Capsule(variation, env), variation.params[1], RyVec(args)).st = "ok"
     ELSE \A k \in 1..variation.arity :
            _visit_pattern(Capsule(variation, env), variation.params[k], args[k]).st = "ok"

\* The capsule holds the variation's captured bindings and what its own
\* parameters bound, and nothing else.
FreshCapsule(variation, capsule) ==
  LET captured == Capsule(variation, env)
      bound == BoundNames(variation.params)
  IN /\ DOMAIN capsule \subseteq DOMAIN captured \cup bound
     /\ \A n \in DOMAIN captured \ bound : n \in DOMAIN capsule /\ capsule[n] = captured[n]

\* C3 as claimed: the variation whose body a call executes is the first of
\* the bundle's list that is applicable and whose every parameter pattern
\* matches, it runs in a fresh copy of its own captured state, and when no
\* variation qualifies the call dies.
C3_FirstMatchWins ==
  (last.kind = "call" /\ "ref" \in DOMAIN last) =>
    LET vs == Variations(last.ref)
        qualifying == {j \in 1..Len(vs) : Qualifies(vs[j], last.args)}
    IN /\ last.st = "done" =>
            /\ last.index \in qualifying
            /\ \A j \in qualifying : last.index <= j
            /\ FreshCapsule(vs[last.index], last.capsule)
       /\ qualifying = {} => last.st = "die"

\* C9 as claimed: the routeable an Instance node returns has as extractable
\* exactly the evaluated arguments, as many as the object has properties,
\* also for an object of zero properties.
C9_ExtractableIsArgs ==
  (last.kind = "assign" /\ last.st = "ok" /\ last.from = "Instance") =>
    /\ last.made.value.extractable = last.made.args
    /\ Len(last.made.value.extractable) = last.made.nprops

-----------------------------------------------------------------------------
(* Properties of quoted definitions and the reader. *)

\* What Reader.next returns for the source `a op b`, read with the root
\* reader's tables
ReadInfix == ReaderNext(Update(readers[1], <<Word("a"), Word("op"), Word("b")>>)).out

\* C6 as claimed: once a Function definition of the quoted name 'op with
\* arity 2 has been evaluated, the reader's precedence table has an entry
\* for op, and a next top-level form `a op b` parses as the Call of 'op with
\* the arguments [a, b]; before the definition op is not an infix.
C6_InfixAfterDefinition ==
  /\ (last.kind = "function" /\ last.st = "ok" /\ last.name = "'op" /\ last.arity = 2)
       => /\ {"op", "OP"} \cap DOMAIN readers[1].switches.precedence # {}
          /\ ReadInfix.st = "ok"
          /\ ReadInfix.node.type = "Call"
          /\ ReadInfix.node.callee.parent = "'op"
          /\ Len(ReadInfix.node.args) = 2
          /\ ReadInfix.node.args[1].parent = "a"
          /\ ReadInfix.node.args[2].parent = "b"
  /\ ~IsVariations(env, "'op")
       => {"op", "OP"} \cap DOMAIN readers[1].switches.precedence = {}

-----------------------------------------------------------------------------
(* Properties of the driver loop. *)

\* The top-level form of the root master's source that lexeme i belongs to:
\* each line of the source is one form
FormOf(i) == 1 + Cardinality({j \in 1..(i - 1) : readers[1].source[j].kind = "nl"})

\* C5 as claimed: every token of top-level form N+1, its first token
\* included, is lexed after form N has been evaluated, with the switch
\* tables as that evaluation left them.
C5_LexedAfterEvaluation ==
  \A i \in 1..Len(lexed) :
    readers[1].source[i].kind \notin {"nl", "eof"} =>
      /\ lexed[i].evaluated >= FormOf(i) - 1
      /\ lexed[i].switches = after[FormOf(i)]

-----------------------------------------------------------------------------
(* Properties of module loading. *)

\* The set MODULE-CACHE is bound to in the root master's environment
ModuleCache == caches[env["MODULE-CACHE"].value.set]

\* C7 as claimed: within one master the body of a module at a given
\* absolute path is parsed and evaluated at most once, and MODULE-CACHE
\* holds at most one entry whose value is that path.
C7_LoadedOnce ==
  /\ \A i, j \in 1..Len(fed) :
       (fed[i].by = fed[j].by /\ fed[i].path = fed[j].path) => i = j
  /\ \A x, y \in ModuleCache : x.value = y.value => x = y

\* The evaluations of the module at `path` by the root master, as positions
\* in the log of fed modules
Evaluations(path) == {i \in 1..Len(fed) : fed[i].by = 1 /\ fed[i].path = path}

\* The environment the module at `path` had when the root master last
\* evaluated it
ModuleEnv(path) ==
  fed[CHOOSE i \in Evaluations(path) : \A j \in Evaluations(path) : j <= i].env

\* C8 as claimed: after a Needs node with expose set that resolved to an
\* existing module file has been evaluated, the importing environment binds
\* every non-underscored name of the module's environment to the module's
\* value, whether or not the path was in MODULE-CACHE before.
C8_ExposedBinds ==
  (last.kind = "needs" /\ last.st = "ok" /\ last.expose /\ Evaluations(last.path) # {}) =>
    \A n \in DOMAIN ModuleEnv(last.path) :
      ~StartsWithUnderscore(n) =>
        (n \in DOMAIN env /\ env[n] = ModuleEnv(last.path)[n])

\* The lines of the sources of the feed specification:
\*   5    1    x = 5    division {}    division { 5 }
FeedLines ==
  { <<Digits("5")>>,
    <<Digits("1")>>,
    <<Word("x"), Sym("="), Digits("5")>>,
    <<Word("division"), Sym("{"), Sym("}")>>,
    <<Word("division"), Sym("{"), Digits("5"), Sym("}")>> }

FeedSource == FeedOf(FeedLines)

NextFeed == FeedSource \/ Read \/ Evaluate

SpecFeed == Init /\ [][NextFeed]_vars

-----------------------------------------------------------------------------
(* _visit_node on every node, with the nesting of its activations. An      *)
(* activation at depth d that calls _visit_node starts an activation at    *)
(* d + 1; where the code replaces `node` (and S) and loops, the next node  *)
(* is visited by the same activation. An outcome has st = "ok", "die",     *)
(* "crash" or "ret" (a _ReturnException on its way up), and `peak` is the  *)
(* deepest activation reached. The nodes inside patterns are visited at    *)
(* d + 1, as the head, the value or the arguments matched against them.    *)

If(cond, correct, other) ==
  [type |-> "If", cond |-> cond, correct |-> correct, other |-> other]

Ret(value) == [type |-> "Ret", value |-> value]

Cases(head, cases) == [type |-> "Cases", head |-> head, cases |-> cases]

ValueCase(cond, body) == [type |-> "ValueCase", cond |-> cond, body |-> body]

MatchCase(cond, body) == [type |-> "MatchCase", cond |-> cond, body |-> body]

Done(W, S, out, peak) == [W |-> W, S |-> S, out |-> out, peak |-> peak]

\* raise _ReturnException(value)
Returned(value) == [st |-> "ret", value |-> value]

\* What an activation did that went on after a call it made
After(first, then) == [then EXCEPT !.peak = Max(@, first.peak)]

\* The outcome of the caller, whose state is S, of an activation run in
\* another state
Back(S, r) == Done(r.W, S, r.out, r.peak)

\* A tail call made by a call of _visit_node
ContinueByCall(depth) == depth + 1

\* TCO: node = last; S = capsule; continue, in the same activation
Continue(depth) == depth

\* state.copy(), of the state a function or an excerpt holds
StateCopy(W, S, state) == OwnState(S.master, IF state.live THEN W.env ELSE state.env)

\* An excerpt that holds the state it was given, not a copy
ExcerptOfLiveState(W, S, node) ==
  RyExcerpt(IF S.shared THEN LiveState ELSE CopiedState(EnvOf(W, S)), node)

\* RyExcerpt(S, node): self.state = state.copy()
Excerpt(W, S, node) == RyExcerpt(CopiedState(EnvOf(W, S)), node)

\* body[:-1]
Front(body) == SubSeq(body, 1, Len(body) - 1)

\* last.value if last.type == 'Ret' else last
LastNode(body) ==
  IF body[Len(body)].type = "Ret" THEN body[Len(body)].value ELSE body[Len(body)]

\* The sort key of a case, in units of RyPriority.SLURPY, of which every
\* priority is a multiple: 2**32 for a ValueCase
ValueCaseKey == 536870912

RECURSIVE PriorityUnits(_)
RECURSIVE SumUnits(_)

SumUnits(patterns) ==
  IF patterns = <<>> THEN 0
  ELSE PriorityUnits(Head(patterns)) + SumUnits(Tail(patterns))

\* _prioritize(pattern), in units of RyPriority.SLURPY
PriorityUnits(pattern) ==
  CASE pattern.type = "P_Extract" ->
         (EXTRACT \div SLURPY + SumUnits(pattern.fields)) * (Len(pattern.fields) + 1)
    [] pattern.type = "P_Unpack" ->
         (UNPACK \div SLURPY + SumUnits(pattern.members)) * (Len(pattern.members) + 1)
    [] OTHER -> _prioritize(pattern) \div SLURPY

\* key=lambda x: 2**32 if x.type == 'ValueCase' else _prioritize(x.cond)
CaseKey(case) ==
  IF case.type = "ValueCase" THEN ValueCaseKey ELSE PriorityUnits(case.cond)

\* node.cases.sort(key=..., reverse=True)
SortCases(cases) ==
  Let(SortByPriority([i \in 1..Len(cases) |->
                        [priority |-> CaseKey(cases[i]), case |-> cases[i]]]),
      LAMBDA sorted : [i \in 1..Len(sorted) |-> sorted[i].case])

RECURSIVE _visit_node(_, _, _, _)
RECURSIVE VisitAll(_, _, _, _)
RECURSIVE TryCases(_, _, _, _, _, _)

\* [_visit_node(S, x) for x in node], by an activation at `depth`
VisitAll(W, S, nodes, depth) ==
  IF nodes = <<>> THEN Done(W, S, Ok(<<>>), depth)
  ELSE Let(_visit_node(W, S, Head(nodes), depth + 1), LAMBDA first :
         IF first.out.st # "ok" THEN first
         ELSE Let(VisitAll(first.W, first.S, Tail(nodes), depth), LAMBDA rest :
                After(first,
                      IF rest.out.st # "ok" THEN rest
                      ELSE [rest EXCEPT !.out = Ok(<<first.out.value>> \o rest.out.value)])))

\* _visit_node(S, body[:-1]); node = body[-1], of an If or a Cases
Block(W, S, body, depth) ==
  Let(VisitAll(W, S, Front(body), depth + 1), LAMBDA init :
    IF init.out.st # "ok" THEN init
    ELSE After(init, _visit_node(init.W, init.S, body[Len(body)], Continue(depth))))

\* _visit_node on an If node
VisitIf(W, S, node, depth, cond) ==
  IF cond.out.st # "ok" THEN cond
  ELSE IF ~(cond.out.value.type = "bool" /\ cond.out.value.value = FALSE)
  THEN IF node.correct = <<>> THEN [cond EXCEPT !.out = Ok(RyBool(TRUE))]
       ELSE After(cond, Block(cond.W, cond.S, node.correct, depth))
  ELSE IF node.other # <<>> THEN After(cond, Block(cond.W, cond.S, node.other, depth))
  ELSE [cond EXCEPT !.out = Ok(RyBool(FALSE))]

\* The case that matched: its body
Selected(W, S, case, depth) ==
  IF case.body = <<>> THEN Done(W, S, Ok(RyBool(TRUE)), depth)
  ELSE Block(W, S, case.body, depth)

\* A MatchCase: what _visit_pattern said of the head
TriedMatch(W, S, cases, head, k, depth, m) ==
  CASE m.st = "ok" -> Let(WithEnv(W, S, m.env, Ok(head)), LAMBDA r :
                        Selected(r.W, r.S, cases[k], depth))
    [] m.st = "fail" -> Let(WithEnv(W, S, m.env, Ok(head)), LAMBDA r :
                          TryCases(r.W, r.S, cases, head, k + 1, depth))
    [] OTHER -> Let(WithEnv(W, S, m.env, [st |-> m.st, reason |-> m.reason]), LAMBDA r :
                  Done(r.W, r.S, r.out, depth))

\* A ValueCase: its condition, visited
TriedValue(cases, head, k, depth, cond) ==
  IF cond.out.st # "ok" THEN cond
  ELSE IF _equals(cond.out.value, head)
  THEN After(cond, Selected(cond.W, cond.S, cases[k], depth))
  ELSE After(cond, TryCases(cond.W, cond.S, cases, head, k + 1, depth))

\* for case in node.cases: ..., from the k-th of the sorted cases on
TryCases(W, S, cases, head, k, depth) ==
  IF k > Len(cases)
  THEN IF cases = <<>> THEN Done(W, S, Crash("UnboundLocalError: status"), depth)
       ELSE Done(W, S, Ok(RyBool(FALSE)), depth)
  ELSE IF cases[k].type = "MatchCase"
  THEN IF cases[k].cond.type = "P_Discard" THEN Selected(W, S, cases[k], depth)
       ELSE TriedMatch(W, S, cases, head, k, depth,
                       _visit_pattern(EnvOf(W, S), cases[k].cond, head))
  ELSE TriedValue(cases, head, k, depth, _visit_node(W, S, cases[k].cond, depth + 1))

\* _visit_node on a Cases node
VisitCases(node, depth, head) ==
  IF head.out.st # "ok" THEN head
  ELSE After(head, TryCases(head.W, head.S, SortCases(node.cases), head.out.value,
                            1, depth))

\* _visit_node on a Ret node
VisitRet(value) ==
  IF value.out.st # "ok" THEN value ELSE [value EXCEPT !.out = Returned(value.out.value)]

\* _visit_node on an Assign node, the value visited
Assigned(node, value, m) ==
  Let(WithEnv(value.W, value.S, m.env,
              CASE m.st = "ok" -> value.out
                [] m.st = "fail" -> Die("match error")
                [] OTHER -> [st |-> m.st, reason |-> m.reason]),
      LAMBDA r : Done(r.W, r.S, r.out, value.peak))

VisitAssignAt(node, value) ==
  IF value.out.st # "ok" THEN value
  ELSE Assigned(node, value,
                _visit_pattern(EnvOf(value.W, value.S), node.pattern, value.out.value))

\* The body of the variation that matched, run in its capsule: body[:-1]
\* with the returns caught, then the last node in place of the call
Body(W, S, capsule, body, depth) ==
  IF body = <<>> THEN Done(W, S, Ok(RyNothing), depth)
  ELSE Let(VisitAll(W, capsule, Front(body), depth + 1), LAMBDA init :
         CASE init.out.st = "ret" -> Done(init.W, S, Ok(init.out.value), init.peak)
           [] init.out.st = "ok" ->
                After(init, Back(S, _visit_node(init.W, init.S, LastNode(body),
                                                Continue(depth))))
           [] OTHER -> Back(S, init))

\* The dispatch loop said d
Dispatched(W, S, bundle, d, depth) ==
  CASE d.st = "nomatch" -> Done(W, S, Die("none matched"), depth)
    [] d.st = "ok" ->
         Body(W, S, OwnState(S.master, d.capsule), bundle.variations[d.index].body, depth)
    [] OTHER -> Done(W, S, [st |-> d.st, reason |-> d.reason], depth)

\* args: excerpts of the nodes for a quoting bundle, their values otherwise
Arguments(W, S, bundle, nodes, depth) ==
  IF bundle.quoting
  THEN Done(W, S, Ok([i \in 1..Len(nodes) |-> Excerpt(W, S, nodes[i])]), depth)
  ELSE VisitAll(W, S, nodes, depth + 1)

\* A call of a variations bundle, the arguments visited
CallVariations(bundle, depth, args) ==
  IF args.out.st # "ok" THEN args
  ELSE After(args, Dispatched(args.W, args.S, bundle,
                              DispatchFrom(bundle.variations, args.out.value,
                                           args.W.env, 1),
                              depth))

\* _visit_node on a Call node, the callee visited
Called(node, depth, callee) ==
  IF callee.out.st # "ok" THEN callee
  ELSE IF callee.out.value.type = "variations"
  THEN After(callee,
             CallVariations(callee.W.bundles[callee.out.value.ref], depth,
                            Arguments(callee.W, callee.S,
                                      callee.W.bundles[callee.out.value.ref],
                                      node.args, depth)))
  ELSE [callee EXCEPT !.out = Die("callee is not callable")]

\* unquote: the excerpt's node, visited in a copy of the excerpt's state
Unquoted(depth, excerpt) ==
  IF excerpt.out.st # "ok" THEN excerpt
  ELSE IF excerpt.out.value.type # "excerpt"
  THEN [excerpt EXCEPT !.out = Die("cannot unquote a non-excerpt value")]
  ELSE After(excerpt,
             Back(excerpt.S,
                  _visit_node(excerpt.W,
                              StateCopy(excerpt.W, excerpt.S, excerpt.out.value.state),
                              excerpt.out.value.node, depth + 1)))

\* _visit_node on a Call node
VisitCallAt(W, S, node, depth) ==
  IF node.callee.type = "Request" /\ Len(node.args) = 1 /\ node.callee.name = "unquote"
  THEN Unquoted(depth, _visit_node(W, S, node.args[1], depth + 1))
  ELSE IF node.callee.type = "Request" /\ Len(node.args) = 1
          /\ node.callee.name = "quote"
  THEN Done(W, S, Ok(Excerpt(W, S, node.args[1])), depth)
  ELSE Called(node, depth, _visit_node(W, S, node.callee, depth + 1))

\* _visit_node(S, node), by an activation at `depth`
_visit_node(W, S, node, depth) ==
  CASE node.type = "Cases" -> VisitCases(node, depth, _visit_node(W, S, node.head, depth + 1))
    [] node.type = "If" -> VisitIf(W, S, node, depth, _visit_node(W, S, node.cond, depth + 1))
    [] node.type = "Ret" -> VisitRet(_visit_node(W, S, node.value, depth + 1))
    [] node.type = "Assign" -> VisitAssignAt(node, _visit_node(W, S, node.value, depth + 1))
    [] node.type = "Call" -> VisitCallAt(W, S, node, depth)
    [] node.type = "Needs" ->
         Let(VisitNeeds(W, S, node), LAMBDA r : Done(r.W, r.S, r.out, depth))
    [] node.type = "Function" ->
         \* return variations
         Let(VisitFunctionNode(W, S, node), LAMBDA r :
           Done(r.W, r.S,
                IF r.out.st = "ok" THEN Ok(EnvOf(r.W, r.S)[node.name]) ELSE r.out,
                depth))
    [] OTHER -> Done(W, S, VisitValueNode(EnvOf(W, S), node), depth)

\* visit: a _ReturnException that reaches it is a death
TopLevel(out) == IF out.st = "ret" THEN Die("ret outside a function") ELSE out

\* visit: last = _visit_node(state, node), with what the call did
FormDone(node, r) ==
  /\ forms < MaxForms \/ (r.W.env = env /\ r.W.bundles = bundles)
  /\ env' = r.W.env
  /\ bundles' = r.W.bundles
  /\ forms' = IF r.W.env = env /\ r.W.bundles = bundles THEN forms ELSE forms + 1
  /\ last' = TopLevel(r.out) @@ [kind |-> "form", node |-> node, peak |-> r.peak]
  /\ UNCHANGED ioVars

\* visit: the next top-level form is one of these nodes
EvalFormOf(nodes) ==
  \E node \in nodes :
    FormDone(node, _visit_node(World(env, bundles, caches, readers, fed),
                               SharedState(1), AtLine(node), 1))

-----------------------------------------------------------------------------
(* Returns and tail calls. *)

\* The longest chain of self tail calls
MaxChain == 2

TailFunctionNodes ==
  { \* g1 -> { ret "zero"; "other" }
    Function("g1", <<>>, <<Ret(String(TxZero)), String(TxOther)>>, FALSE, FALSE, FALSE),
    \* g2 -> ret "zero"
    Function("g2", <<>>, <<Ret(String(TxZero))>>, FALSE, FALSE, FALSE),
    \* g3 c -> if c { ret "zero" } else { "other" }
    Function("g3", <<P_Identifier("c")>>,
             <<If(Request("c"), <<Ret(String(TxZero))>>, <<String(TxOther)>>)>>,
             FALSE, FALSE, FALSE),
    \* k -> { g3 true; "other" }
    Function("k", <<>>, <<Call("g3", <<Request("true")>>), String(TxOther)>>,
             FALSE, FALSE, FALSE),
    \* loop [] -> "zero"
    Function("loop", <<P_Unpack(<<>>)>>, <<String(TxZero)>>, FALSE, FALSE, FALSE),
    \* loop [_ rest*] -> loop rest
    Function("loop", <<P_Unpack(<<P_Discard, P_NamedMany("rest")>>)>>,
             <<Call("loop", <<Request("rest")>>)>>, FALSE, FALSE, FALSE),
    \* loop [_ rest*] -> if true { loop rest }
    Function("loop", <<P_Unpack(<<P_Discard, P_NamedMany("rest")>>)>>,
             <<If(Request("true"), <<Call("loop", <<Request("rest")>>)>>, <<>>)>>,
             FALSE, FALSE, FALSE),
    \* loop [_ rest*] -> case rest { _ => loop rest }
    Function("loop", <<P_Unpack(<<P_Discard, P_NamedMany("rest")>>)>>,
             <<Cases(Request("rest"),
                     <<MatchCase(P_Discard, <<Call("loop", <<Request("rest")>>)>>)>>)>>,
             FALSE, FALSE, FALSE) }

\* loop "", loop "a", loop "aa", ...
LoopCall(n) == Call("loop", <<String([i \in 1..n |-> "a"])>>)

LoopCalls == { LoopCall(n) : n \in 0..MaxChain }

TailCallNodes ==
  { Call("g1", <<>>), Call("g2", <<>>), Call("g3", <<Request("true")>>),
    Call("g3", <<Request("false")>>), Call("k", <<>>) } \cup LoopCalls

EvalTailFunction == EvalFunctionOf(TailFunctionNodes)

EvalTailCall == EvalFormOf(TailCallNodes)

NextTail == EvalTailFunction \/ EvalTailCall

SpecTail == Init /\ [][NextTail]_vars

\* What the call `name args` gives in the current state
CallNow(name, args) ==
  _visit_node(World(env, bundles, caches, readers, fed), SharedState(1),
              AtLine(Call(name, args)), 1)

\* The last form was a call of `name`
CalledLast(name) ==
  /\ last.kind = "form"
  /\ last.node.type = "Call"
  /\ last.node.callee.name = name

\* C11: a Ret evaluated during the execution of a function body ends the
\* nearest enclosing call with its payload as that call's result: it never
\* reaches the top level, and the call `k`, whose body is
\* { g3 true; "other" }, goes on after `g3 true` and gives "other".
C11_RetEndsNearestCall ==
  /\ last.kind = "form" =>
       ~(last.st = "die" /\ last.reason = "ret outside a function")
  /\ CalledLast("k") /\ last.st = "ok" => last.value = RyStr(TxOther)

\* C12: a chain of self tail calls that reaches its base case reaches no
\* deeper nesting of evaluator activations than the call that is the base
\* case itself, however many calls the chain makes.
C12_TailCallsAtConstantDepth ==
  CalledLast("loop") /\ last.st = "ok" =>
    last.peak = CallNow("loop", <<String(<<>>)>>).peak

\* C12: a chain of MaxChain self tail calls reached the base case
C12_ChainReachedBase ==
  /\ CalledLast("loop")
  /\ last.node.args = <<String([i \in 1..MaxChain |-> "a"])>>
  /\ last.st = "ok"
  /\ last.value = RyStr(TxZero)

\* C13: for a source accepted without error, feed stops only when the
\* reader has reached the end of the input: when visit has left its loop
\* the reader's current token is EOF.
C13_StopsAtEndOfInput ==
  pending.type = "done" => readers[1].token.type = "EOF"

-----------------------------------------------------------------------------
(* _equals on pairs of runtime values. *)

\* The longest vector compared
MaxVecLen == 2

\* The values that are not vectors: booleans, numbers, strings, a type, and
\* nothing, which is not a box
Scalars ==
  { RyBool(TRUE), RyBool(FALSE), RyNum(0), RyNum(1), RyStr(<<>>), RyStr(TxNum),
    RyTypeType(TxNum), RyNothing }

\* The vectors of at most MaxVecLen scalars or empty vectors
Vectors ==
  { RyVec(items) : items \in UNION { [1..n -> Scalars \cup {RyVec(<<>>)}] :
                                       n \in 0..MaxVecLen } }

EqualsValues == Scalars \cup Vectors

\* A pair of values is about to be compared
InitEquals ==
  /\ env = Kernel(1, 1)
  /\ bundles = <<>>
  /\ forms = 0
  /\ last = [kind |-> "none"]
  /\ caches = <<{CacheEntry(1, BootPath)}>>
  /\ readers = <<NewReader>>
  /\ pending \in { [type |-> "pair", left |-> l, right |-> r] :
                     l \in EqualsValues, r \in EqualsValues }
  /\ lexed = <<>>
  /\ after = <<NewReader.switches>>
  /\ fed = <<>>
  /\ quoted = [st |-> "none"]

\* _equals(left, right)
Equals ==
  /\ pending.type = "pair"
  /\ last' = [kind |-> "equals", left |-> pending.left, right |-> pending.right,
              result |-> _equals(pending.left, pending.right)]
  /\ pending' = [type |-> "idle"]
  /\ UNCHANGED <<env, bundles, forms, caches, readers, lexed, after, fed, quoted>>

SpecEquals == InitEquals /\ [][Equals]_vars

RECURSIVE EqualAsStated(_, _)
\* Equality of two values by the three cases: booleans of identical truth
\* value, vectors of equal length with pairwise equal elements, other boxes
\* of equal payload
EqualAsStated(left, right) ==
  \/ /\ left.type = "bool" /\ right.type = "bool"
     /\ left.value = right.value
  \/ /\ left.type = "vec" /\ right.type = "vec"
     /\ Len(left.value) = Len(right.value)
     /\ \A i \in 1..Len(left.value) : EqualAsStated(left.value[i], right.value[i])
  \/ /\ IsBox(left) /\ IsBox(right)
     /\ {left.type, right.type} \cap {"bool", "vec"} = {}
     /\ PyPayloadEq(left, right)

\* C14: for every pair of runtime values, _equals returns true exactly when
\* both are booleans of identical truth value, or both are vectors of equal
\* length with pairwise equal elements, or both are other boxed primitives
\* of equal underlying value, and false in every other case.
C14_EqualsExactly ==
  last.kind = "equals" => (last.result <=> EqualAsStated(last.left, last.right))

-----------------------------------------------------------------------------
(* quote and unquote, in a master that has evaluated x = 1 and the         *)
(* definitions of a naked function and of a closure that read x.           *)

\* q = quote e
QuoteOf(e) == Assign(P_Identifier("q"), Call("quote", <<e>>))

\* v = unquote q
UnquoteForm == Assign(P_Identifier("v"), Call("unquote", <<Request("q")>>))

\* x = 1; naked g -> x; h -> x
QuotePrelude ==
  << Assign(P_Identifier("x"), Number(1)) @@ [line |-> 1],
     Function("g", <<>>, <<Request("x")>>, FALSE, FALSE, TRUE) @@ [line |-> 2],
     Function("h", <<>>, <<Request("x")>>, FALSE, FALSE, FALSE) @@ [line |-> 3] >>

\* The master's objects once visit has evaluated the prelude
AfterPrelude ==
  VisitAll(World(Kernel(1, 1), <<>>, <<{CacheEntry(1, BootPath)}>>, <<NewReader>>, <<>>),
           SharedState(1), QuotePrelude, 0).W

InitQuote ==
  /\ env = AfterPrelude.env
  /\ bundles = AfterPrelude.bundles
  /\ forms = 0
  /\ last = [kind |-> "none"]
  /\ caches = <<{CacheEntry(1, BootPath)}>>
  /\ readers = <<NewReader>>
  /\ pending = [type |-> "idle"]
  /\ lexed = <<>>
  /\ after = <<NewReader.switches>>
  /\ fed = <<>>
  /\ quoted = [st |-> "none"]

\* x, 5, g, h, (id = x)
QuotedNodes ==
  { Request("x"), Number(5), Call("g", <<>>), Call("h", <<>>),
    Assign(P_Identifier("id"), Request("x")) }

\* x = 1, x = 2, h = 2
QuoteAssignNodes ==
  { Assign(P_Identifier("x"), Number(1)), Assign(P_Identifier("x"), Number(2)),
    Assign(P_Identifier("h"), Number(2)) }

\* The expression is a call of a name bound to a naked bundle
CallsNaked(e, bs, node) ==
  /\ node.type = "Call"
  /\ node.callee.type = "Request"
  /\ node.callee.name \in DOMAIN e
  /\ e[node.callee.name].type = "variations"
  /\ bs[e[node.callee.name].ref].naked

\* visit: the next form is q = quote e, with what the form did (r) and what
\* e gives where it is quoted (site)
QuoteDone(e, r, site) ==
  /\ forms < MaxForms
  /\ env' = r.W.env
  /\ bundles' = r.W.bundles
  /\ forms' = forms + 1
  /\ last' = TopLevel(r.out) @@ [kind |-> "form", node |-> QuoteOf(e), peak |-> r.peak]
  /\ quoted' = TopLevel(site.out) @@ [node |-> e, naked |-> CallsNaked(env, bundles, e)]
  /\ UNCHANGED readerVars

\* visit: the next form is q = quote e, e one of these nodes
EvalQuoteOf(nodes) ==
  \E e \in nodes :
    QuoteDone(e,
              _visit_node(World(env, bundles, caches, readers, fed), SharedState(1),
                          AtLine(QuoteOf(e)), 1),
              _visit_node(World(env, bundles, caches, readers, fed), SharedState(1),
                          AtLine(e), 1))

EvalQuote == EvalQuoteOf(QuotedNodes)

EvalQuoteAssign == EvalFormOf(QuoteAssignNodes)

EvalUnquote == quoted.st # "none" /\ EvalFormOf({UnquoteForm})

NextQuote == EvalQuote \/ EvalQuoteAssign \/ EvalUnquote

SpecQuote == InitQuote /\ [][NextQuote]_vars

\* The step is v = unquote q, evaluated
Unquotes == last'.kind = "form" /\ last'.node = UnquoteForm /\ "q" \in DOMAIN env

\* v is what the expression gave at the quote site
SameAsQuoted(out) ==
  /\ out.st = quoted.st
  /\ out.st = "ok" => out.value.type = quoted.value.type /\ out.value = quoted.value

\* The step binds v, adds no other name and changes no other binding
BindsOnly(name) ==
  /\ DOMAIN env' \ {name} = DOMAIN env \ {name}
  /\ \A n \in DOMAIN env \ {name} : env'[n] = env[n]

\* C15 as stated: for any expression e and any assignments between
\* q = quote e and v = unquote q, v is the value e had at the quote site,
\* and the unquote adds or changes no binding other than v.
C15_RoundTripAnyExpression ==
  [][Unquotes => SameAsQuoted(last') /\ BindsOnly("v")]_vars

\* C15, amended: for an expression e that is not a call of a naked function
\* and any assignments between q = quote e and v = unquote q, v is the value
\* e had at the quote site (or the unquote dies as e did there), and the
\* unquote adds or changes no binding other than v.
C15_RoundTripOfClosedExpression ==
  [][Unquotes /\ ~quoted.naked => SameAsQuoted(last') /\ BindsOnly("v")]_vars

\* C15: x was 1 where it was quoted, is 2 now, and v = unquote q gave 1
C15_UnquotedAfterRebinding ==
  /\ last.kind = "form" /\ last.node = UnquoteForm /\ last.st = "ok"
  /\ quoted.node = Request("x")
  /\ last.value = RyNum(1)
  /\ env["x"] = RyNum(2)
  /\ env["v"] = RyNum(1)

-----------------------------------------------------------------------------
(* Cases: the order of the arms. *)

\* The number of members of the longest unpack pattern of a case
MaxMembers == 16

\* "aaaa..."
TxLong == [i \in 1..MaxMembers |-> "a"]

\* ["a" "a" "a" ...]
LongUnpack == P_Unpack([i \in 1..MaxMembers |-> P_Compare(String(<<"a">>))])

\* The arms: a ValueCase gives "hi", the P_Discard arm "other", any other
\* MatchCase "zero"
Arms ==
  << ValueCase(Number(0), <<String(TxHi)>>),
     ValueCase(String(TxLong), <<String(TxHi)>>),
     MatchCase(P_Discard, <<String(TxOther)>>),
     MatchCase(P_Compare(Number(0)), <<String(TxZero)>>),
     MatchCase(P_Compare(Number(1)), <<String(TxZero)>>),
     MatchCase(LongUnpack, <<String(TxZero)>>) >>

\* The heads: 0, "aaaa..."
Heads == << Number(0), String(TxLong) >>

\* The lists of one to three different arms, by their indices
ArmLists ==
  { arms \in UNION { [1..n -> DOMAIN Arms] : n \in 1..3 } :
      \A i \in DOMAIN arms : \A j \in DOMAIN arms : i # j => arms[i] # arms[j] }

\* case head { arms }
CasesOf(head, arms) == Cases(Heads[head], [i \in DOMAIN arms |-> Arms[arms[i]]])

\* visit: the next top-level form is a Cases node
EvalCases ==
  \E head \in DOMAIN Heads, arms \in ArmLists :
    FormDone(CasesOf(head, arms),
             _visit_node(World(env, bundles, caches, readers, fed), SharedState(1),
                         AtLine(CasesOf(head, arms)), 1))

SpecCases == Init /\ [][EvalCases]_vars

\* The last form was a Cases node
CasesLast == last.kind = "form" /\ last.node.type = "Cases"

\* The arms of the last Cases node that are ValueCases equal to its head
EqualArms ==
  { i \in 1..Len(last.node.cases) :
      /\ last.node.cases[i].type = "ValueCase"
      /\ _equals(VisitValueNode(env, last.node.cases[i].cond).value,
                 VisitValueNode(env, last.node.head).value) }

\* The arms of the last Cases node that are MatchCases
MatchArms ==
  { i \in 1..Len(last.node.cases) : last.node.cases[i].type = "MatchCase" }

\* C16: in a Cases evaluation every ValueCase arm is tried before every
\* MatchCase arm, whatever pattern the MatchCase carries: the sort key of
\* every MatchCase is strictly below the key of a ValueCase, so when a
\* ValueCase arm equals the head, the body selected is a ValueCase's.
C16_ValueCasesFirst ==
  CasesLast =>
    /\ \A i \in MatchArms : CaseKey(last.node.cases[i]) < ValueCaseKey
    /\ EqualArms # {} => last.st = "ok" /\ last.value = RyStr(TxHi)

\* C17: in a Cases evaluation a MatchCase arm whose pattern is P_Discard is
\* tried before every other MatchCase arm: when such an arm is present and
\* no ValueCase arm equals the head, its body is the one selected.
C17_DiscardArmFirst ==
  CasesLast /\ EqualArms = {}
    /\ (\E i \in MatchArms : last.node.cases[i].cond.type = "P_Discard")
    => last.st = "ok" /\ last.value = RyStr(TxOther)

-----------------------------------------------------------------------------
(* _visit_pattern on unpack patterns. *)

\* The most members of an unpack pattern matched
MaxPattern == 4

\* The most items of a value matched
MaxItems == 2

\* The members: a*, b+, _*, 0, ",", x
UnpackMembers ==
  << P_NamedMany("a"), P_NamedMulti("b"), P_DiscardMany, P_Compare(Number(0)),
     P_Compare(String(<<",">>)), P_Identifier("x") >>

\* The unpack pattern of the members of these indices
UnpackOf(indices) == P_Unpack([i \in DOMAIN indices |-> UnpackMembers[indices[i]]])

\* The vectors of the numbers 0 and 1, and the strings of "a" and ","
UnpackValues ==
  UNION { { RyVec(items) : items \in [1..n -> {RyNum(0), RyNum(1)}] }
            \cup { RyStr(chars) : chars \in [1..n -> {"a", ","}] } : n \in 0..MaxItems }

\* A value is about to be matched against an unpack pattern
InitUnpack ==
  /\ env = Kernel(1, 1)
  /\ bundles = <<>>
  /\ forms = 0
  /\ last = [kind |-> "none"]
  /\ caches = <<{CacheEntry(1, BootPath)}>>
  /\ readers = <<NewReader>>
  /\ pending \in { [type |-> "match", members |-> indices, value |-> value] :
                     indices \in UNION { [1..n -> DOMAIN UnpackMembers] :
                                           n \in 0..MaxPattern },
                     value \in UnpackValues }
  /\ lexed = <<>>
  /\ after = <<NewReader.switches>>
  /\ fed = <<>>
  /\ quoted = [st |-> "none"]

\* _visit_pattern(S, pattern, value), with what it returned or raised
MatchDone(pattern, value, m) ==
  /\ env' = m.env
  /\ last' = [kind |-> "match", st |-> m.st, pattern |-> pattern, value |-> value]
  /\ pending' = [type |-> "idle"]
  /\ UNCHANGED <<bundles, forms, caches, readers, lexed, after, fed, quoted>>

\* _visit_pattern(S, pattern, value)
Match ==
  /\ pending.type = "match"
  /\ MatchDone(UnpackOf(pending.members), pending.value,
               _visit_pattern(env, UnpackOf(pending.members), pending.value))

SpecUnpack == InitUnpack /\ [][Match]_vars

\* The members of the last pattern matched
Members == last.pattern.members

\* The indices of the variable-length members
Groups == { i \in DOMAIN Members : IsGroup(Members[i]) }

\* The indices of the members that capture exactly one value
Singles == DOMAIN Members \ Groups

\* The variable-length members that a delimiter directly follows
Delimited == { i \in Groups : i + 1 \in DOMAIN Members /\ IsDelimiter(Members[i + 1]) }

\* The member is named, and no other member has its name
NamedOnce(i) ==
  /\ IsNamed(Members[i])
  /\ \A k \in DOMAIN Members \ {i} : IsNamed(Members[k]) => Members[k].name # Members[i].name

\* The item is one the delimiter matches
Delimits(delimiter, item) ==
  _visit_pattern(env, delimiter, Wrap(last.value.type = "str", item)).st = "ok"

\* The items of a captured part
Captured(name) == env[name].value

\* C18: matching a value against an unpack pattern that has two
\* variable-length members with no delimiting pattern between them does not
\* succeed.
C18_UndelimitedRejected ==
  last.kind = "match"
    /\ (\E i \in Groups : \E j \in Groups :
          i < j /\ \A k \in (i + 1)..(j - 1) : ~IsDelimiter(Members[k]))
    => last.st # "ok"

\* C19: a variable-length member directly followed by a delimiter captures
\* the items up to, and excluding, the first one the delimiter matches, the
\* delimiter consumes that item, and matching resumes with the member and
\* the item after it; if no item matches the delimiter the match fails; of
\* a string the captured part is a str. So when the first member is such a
\* member, what it captured holds no item the delimiter matches and is
\* followed by one it matches, or the match has failed; and when every
\* variable-length member is delimited, a successful match has an item of
\* its own for every captured item and every single-value member.
C19_DelimitedCapture ==
  last.kind = "match" =>
    /\ 1 \in Delimited /\ NamedOnce(1) /\ last.st = "ok" =>
         /\ env[Members[1].name].type = last.value.type
         /\ \A i \in DOMAIN Captured(Members[1].name) :
              ~Delimits(Members[2], Captured(Members[1].name)[i])
         /\ Len(Captured(Members[1].name)) < Len(last.value.value)
         /\ Delimits(Members[2], last.value.value[Len(Captured(Members[1].name)) + 1])
    /\ 1 \in Delimited
         /\ (\A i \in DOMAIN last.value.value : ~Delimits(Members[2], last.value.value[i]))
         => last.st \in {"fail", "die"}
    /\ Groups = Delimited /\ last.st = "ok" =>
         Cardinality(Singles) <= Len(last.value.value)

\* C20: _visit_pattern ends by returning a (status, message) pair or by the
\* runtime-error death, never with another exception of the host.
C20_ReturnsOrDies ==
  last.kind = "match" => last.st \in {"ok", "fail", "die"}

-----------------------------------------------------------------------------
(* Calls with no arguments: bundles of f with a variation of no parameters *)
(* next to others, and a bundle of g without one.                          *)

NoArgFunctionNodes ==
  { \* f -> "zero"
    Function("f", <<>>, <<String(TxZero)>>, FALSE, FALSE, FALSE),
    \* f n -> n
    Function("f", <<P_Identifier("n")>>, <<Request("n")>>, FALSE, FALSE, FALSE),
    \* f a b -> a
    Function("f", <<P_Identifier("a"), P_Identifier("b")>>, <<Request("a")>>,
             FALSE, FALSE, FALSE),
    \* f, slurpy, binding all the arguments to args
    Function("f", <<P_Identifier("args")>>, <<Request("args")>>, TRUE, FALSE, FALSE),
    \* f, slurpy, unpacking exactly one argument
    Function("f", <<P_Unpack(<<P_Identifier("a")>>)>>, <<Request("a")>>,
             TRUE, FALSE, FALSE),
    \* f, slurpy, comparing the arguments with a name bound nowhere
    Function("f", <<P_Compare(Request("nope"))>>, <<String(TxHi)>>, TRUE, FALSE, FALSE),
    \* g n -> n
    Function("g", <<P_Identifier("n")>>, <<Request("n")>>, FALSE, FALSE, FALSE) }

NoArgCallNodes == { Call("f", <<>>), Call("g", <<>>), Call("f", <<Number(0)>>) }

EvalNoArgFunction == EvalFunctionOf(NoArgFunctionNodes)

EvalNoArgCall == EvalCallOf(NoArgCallNodes)

NextNoArg == EvalNoArgFunction \/ EvalNoArgCall

SpecNoArg == Init /\ [][NextNoArg]_defVars

\* The last form was a call with no arguments of a bundle
NoArgCall == last.kind = "call" /\ "ref" \in DOMAIN last /\ last.args = <<>>

\* The places of the variations of no parameters in a bundle
ZeroArity(ref) ==
  { i \in 1..Len(Variations(ref)) :
      Variations(ref)[i].arity = 0 /\ Variations(ref)[i].priority # SLURPY }

\* The first of them
FirstZeroArity(ref) == CHOOSE i \in ZeroArity(ref) : \A j \in ZeroArity(ref) : i <= j

\* The slurpy variations tried before place k
SlurpyBefore(ref, k) == { i \in 1..(k - 1) : Variations(ref)[i].priority = SLURPY }

\* C21: a call with no arguments of a bundle that holds a variation of no
\* parameters never dies with the no-match error. The call is done, won by
\* the first such variation or by a slurpy variation tried before it, unless
\* the pattern of a slurpy variation tried before it raised an error: the
\* variation of no parameters wins whenever the loop comes to it.
C21_NoArgCallMatches ==
  NoArgCall /\ ZeroArity(last.ref) # {} =>
    /\ ~(last.st = "die" /\ last.reason = "none matched")
    /\ last.st = "done" =>
         \/ last.index = FirstZeroArity(last.ref)
         \/ last.index \in SlurpyBefore(last.ref, FirstZeroArity(last.ref))
    /\ last.st # "done" => SlurpyBefore(last.ref, FirstZeroArity(last.ref)) # {}

\* A call with no arguments won by the variation of no parameters, after a
\* slurpy variation and a variation of another arity were passed over.
C21_WonAfterOthers ==
  /\ NoArgCall /\ ZeroArity(last.ref) # {}
  /\ last.st = "done"
  /\ last.index = FirstZeroArity(last.ref)
  /\ last.index = 3
  /\ SlurpyBefore(last.ref, 3) # {}
  /\ \E i \in 1..2 : Variations(last.ref)[i].arity > 0
                     /\ Variations(last.ref)[i].priority # SLURPY

-----------------------------------------------------------------------------
(* Infix operators: Reader.add_operator fills the precedence table of a    *)
(* reader, which then reads one line `1 op1 2 op2 5` or `1 op1 2`.         *)

\* The greatest precedence an operator is registered with
MaxPrec == 2

\* str.isalpha on the first character of the names of the model
AlphabeticNames == {"OP", "NOT"}

\* Reader.add_operator
add_operator(r, op, assoc, prec) ==
  [r EXCEPT !.switches.precedence = (op :> <<assoc, prec>>) @@ @,
            !.switches.symbols = IF op \in AlphabeticNames THEN @ ELSE @ \cup {op}]

InfixOperators == {"+", "*"}

InfixSources ==
  { <<Digits("1"), Sym(op1), Digits("2"), Sym(op2), Digits("5")>> :
      op1 \in InfixOperators, op2 \in InfixOperators }
  \cup { <<Digits("1"), Sym(op), Digits("2")>> : op \in InfixOperators }

\* reader.add_operator(op, assoc, prec) on one of the readers, before a
\* source is given
AddOperatorOf(ops, assocs, precs) ==
  /\ pending.type = "idle"
  /\ \E k \in DOMAIN readers, op \in ops, assoc \in assocs, prec \in precs :
       readers' = [readers EXCEPT ![k] = add_operator(@, op, assoc, prec)]
  /\ last' = [kind |-> "switch"]
  /\ UNCHANGED <<env, bundles, forms, caches, pending, lexed, after, fed, quoted>>

\* reader.update(source) on the first reader
UpdateOf(sources) ==
  /\ pending.type = "idle"
  /\ \E source \in sources :
       readers' = [readers EXCEPT ![1] = Update(@, source)]
  /\ pending' = [type |-> "next"]
  /\ UNCHANGED <<env, bundles, forms, last, caches, lexed, after, fed, quoted>>

AddOperator == AddOperatorOf(InfixOperators, {"left", "right"}, 0..MaxPrec)

UpdateInfix == UpdateOf(InfixSources)

NextInfix == AddOperator \/ UpdateInfix \/ Read

SpecInfix == Init /\ [][NextInfix]_vars

\* The line `1 op1 2 op2 5` was read
TwoOperatorsRead ==
  /\ Len(readers[1].source) = 7
  /\ last.kind = "read"

Op1 == readers[1].source[2].text
Op2 == readers[1].source[4].text
Registered(op) == op \in DOMAIN readers[1].switches.precedence
AssocOf(op) == readers[1].switches.precedence[op][1]
PrecOf(op) == readers[1].switches.precedence[op][2]

\* Call(callee = Path("'<op>"), args = [left, right]) and the operands
InfixCall(op, left, right) ==
  [type |-> "Call", callee |-> Path("'" \o op, 1), args |-> <<left, right>>, line |-> 1]
Operand(n) == Number(n) @@ [line |-> 1]

\* ((1 op1 2) op2 5) and (1 op1 (2 op2 5))
GroupedLeft ==
  pending = InfixCall(Op2, InfixCall(Op1, Operand(1), Operand(2)), Operand(5))
GroupedRight ==
  pending = InfixCall(Op1, Operand(1), InfixCall(Op2, Operand(2), Operand(5)))

\* The grouping the two precedences and the associativity of op1 ask for
AsPrecedenceAsks ==
  /\ (PrecOf(Op2) < PrecOf(Op1) \/ (PrecOf(Op2) = PrecOf(Op1) /\ AssocOf(Op1) = "left"))
       => GroupedLeft
  /\ (PrecOf(Op2) > PrecOf(Op1) \/ (PrecOf(Op2) = PrecOf(Op1) /\ AssocOf(Op1) = "right"))
       => GroupedRight

\* C22, as stated: for any two operators registered in the precedence table,
\* `1 op1 2 op2 5` is read as ((1 op1 2) op2 5) when op2 has the lower
\* precedence, or the same and op1 is left-associative, and as
\* (1 op1 (2 op2 5)) when op2 has the higher precedence, or the same and op1
\* is right-associative, each application being a Call of the Path '<op> with
\* the arguments [left, right].
C22_GroupsRegisteredOperators ==
  TwoOperatorsRead /\ Registered(Op1) /\ Registered(Op2) => AsPrecedenceAsks

\* C22, amended: the same for operators registered with a precedence above 0.
C22_GroupsOperatorsAboveZero ==
  TwoOperatorsRead /\ Registered(Op1) /\ Registered(Op2)
  /\ PrecOf(Op1) > 0 /\ PrecOf(Op2) > 0
    => AsPrecedenceAsks

\* Two operators of the same precedence, the first right-associative and the
\* second left-associative, read as (1 op1 (2 op2 5)).
C22_RightAssociativeGrouped ==
  /\ TwoOperatorsRead /\ Registered(Op1) /\ Registered(Op2)
  /\ Op1 # Op2
  /\ PrecOf(Op1) = PrecOf(Op2) /\ PrecOf(Op1) > 0
  /\ AssocOf(Op1) = "right" /\ AssocOf(Op2) = "left"
  /\ GroupedRight

-----------------------------------------------------------------------------
(* The switch tables of two readers under add_prefix, add_operator, the    *)
(* set-guard-precedence builtin and merge; the first reader then reads a   *)
(* line that holds a symbol.                                               *)

\* Reader.add_prefix
add_prefix(r, prefix) ==
  [r EXCEPT !.switches.prefixes = @ \cup {prefix},
            !.switches.symbols = IF prefix \in AlphabeticNames THEN @ ELSE @ \cup {prefix}]

\* Reader(): a second reader
NewOther ==
  /\ pending.type = "idle"
  /\ Len(readers) = 1
  /\ readers' = Append(readers, NewReader)
  /\ UNCHANGED <<env, bundles, forms, last, caches, pending, lexed, after, fed, quoted>>

\* reader.add_prefix(prefix) on one of the readers
AddPrefix ==
  /\ pending.type = "idle"
  /\ \E k \in DOMAIN readers, prefix \in {"~", "NOT"} :
       readers' = [readers EXCEPT ![k] = add_prefix(@, prefix)]
  /\ last' = [kind |-> "switch"]
  /\ UNCHANGED <<env, bundles, forms, caches, pending, lexed, after, fed, quoted>>

AddSymbolOperator == AddOperatorOf({"@", "OP"}, {"left"}, {1})

\* Master._k_set_guard_precedence of the master of one of the readers, on a
\* num: switches['guard-precedence'] = int(precedence.value)
SetGuard ==
  /\ pending.type = "idle"
  /\ \E k \in DOMAIN readers :
       readers' = [readers EXCEPT ![k].switches = ("guard-precedence" :> 2) @@ @]
  /\ last' = [kind |-> "switch"]
  /\ UNCHANGED <<env, bundles, forms, caches, pending, lexed, after, fed, quoted>>

\* self.merge(other) for two of the readers, with the switches both had
MergeAs(into, from, merged) ==
  /\ readers' = merged.W.readers
  /\ last' = [kind |-> "merge", st |-> merged.st, into |-> into, from |-> from,
              mine |-> readers[into].switches, other |-> readers[from].switches]

MergeReaders ==
  /\ pending.type = "idle"
  /\ \E into \in DOMAIN readers, from \in DOMAIN readers :
       /\ into # from
       /\ MergeAs(into, from, Merge(World(env, bundles, caches, readers, fed), into, from))
  /\ UNCHANGED <<env, bundles, forms, caches, pending, lexed, after, fed, quoted>>

\* The lines   1 @ 2    ~ 1    1 + 2
SymbolSources ==
  { <<Digits("1"), Sym("@"), Digits("2")>>,
    <<Sym("~"), Digits("1")>>,
    <<Digits("1"), Sym("+"), Digits("2")>> }

UpdateSymbols == UpdateOf(SymbolSources)

NextSwitches ==
  \/ NewOther \/ AddPrefix \/ AddSymbolOperator \/ SetGuard \/ MergeReaders
  \/ UpdateSymbols \/ Read

SpecSwitches == Init /\ [][NextSwitches]_vars

\* C23: after any sequence of add_prefix, add_operator and merge calls the
\* symbols the lexer's regex recognises are exactly the members of the
\* `symbols` switch of the reader.
C23_RegexHoldsSymbols ==
  \A k \in DOMAIN readers : readers[k].symbol_regex = readers[k].switches.symbols

\* The keyed tables and the sets of a reader's switches
KeyedSwitches == {"tokens", "precedence"}
SetSwitches == {"symbols", "prefixes", "keywords"}

\* A keyed table is the union of two, the second winning on a shared key
UnionOfTables(table, mine, other) ==
  /\ DOMAIN table = DOMAIN mine \cup DOMAIN other
  /\ \A key \in DOMAIN table :
       table[key] = IF key \in DOMAIN other THEN other[key] ELSE mine[key]

\* C24: self.merge(other) completes, leaves every switch of self the union of
\* what it held and what other holds, other's value winning on a shared key,
\* and leaves other's switches as they were.
C24_MergeCompletes ==
  last.kind = "merge" =>
    /\ last.st = "ok"
    /\ DOMAIN readers[last.into].switches = DOMAIN last.mine \cup DOMAIN last.other
    /\ \A switch \in SetSwitches :
         readers[last.into].switches[switch] = last.mine[switch] \cup last.other[switch]
    /\ \A switch \in KeyedSwitches :
         UnionOfTables(readers[last.into].switches[switch],
                       last.mine[switch], last.other[switch])
    /\ readers[last.from].switches = last.other

-----------------------------------------------------------------------------
(* What a call of a bundle leaves in the environment of the caller and in   *)
(* the environments its variations hold.                                     *)

\* A node of a body, which is on the first line of its file
InBody(template) == template @@ [line |-> 1]

FrameFunctionNodes ==
  { \* f -> { x = 1; x }
    Function("f", <<>>, <<Assign(P_Identifier("x"), Number(1)), Request("x")>>,
             FALSE, FALSE, FALSE),
    \* f n -> { n = 2; n }
    Function("f", <<P_Identifier("n")>>,
             <<Assign(P_Identifier("n"), Number(2)), Request("n")>>,
             FALSE, FALSE, FALSE),
    \* f 0 -> { f a b -> a; "zero" }
    Function("f", <<P_Compare(Number(0))>>,
             <<InBody(Function("f", <<P_Identifier("a"), P_Identifier("b")>>,
                               <<Request("a")>>, FALSE, FALSE, FALSE)),
               String(TxZero)>>,
             FALSE, FALSE, FALSE),
    \* naked g -> { x = 1; h -> x; x }
    Function("g", <<>>,
             <<Assign(P_Identifier("x"), Number(1)),
               InBody(Function("h", <<>>, <<Request("x")>>, FALSE, FALSE, FALSE)),
               Request("x")>>,
             FALSE, FALSE, TRUE),
    \* k -> needs a exposed
    Function("k", <<>>, <<Needs("a", FALSE, TRUE, 1)>>, FALSE, FALSE, FALSE) }

FrameCallNodes ==
  { Call("f", <<>>), Call("f", <<Number(0)>>), Call("f", <<Number(5)>>),
    Call("f", <<Number(1), Number(2), Number(5)>>), Call("g", <<>>),
    Call("g", <<Number(0)>>), Call("k", <<>>) }

\* visit: last = _visit_node(state, node), for a call of a name, with what
\* the call did
CallDone(node, r) ==
  /\ env' = r.W.env
  /\ bundles' = r.W.bundles
  /\ caches' = r.W.caches
  /\ readers' = r.W.readers
  /\ fed' = r.W.fed
  /\ forms' = forms + 1
  /\ last' = [kind |-> "call", st |-> TopLevel(r.out).st, name |-> node.callee.name,
              args |-> Len(node.args)]
  /\ UNCHANGED <<pending, lexed, after, quoted>>

\* visit: the next top-level form is a call of one of these bundles
EvalFrameCall ==
  /\ forms < MaxForms
  /\ \E node \in FrameCallNodes :
       /\ IsVariations(env, node.callee.name)
       /\ CallDone(node, _visit_node(World(env, bundles, caches, readers, fed),
                                     SharedState(1), AtLine(node), 1))

EvalFrameFunction == EvalFunctionOf(FrameFunctionNodes)

NextFrame == EvalFrameFunction \/ EvalFrameCall

SpecFrame == Init /\ [][NextFrame]_vars

\* The step is a call of a bundle
BundleCalled == last'.kind = "call"

\* The variations there were hold the environments they held
CapturedKept ==
  \A ref \in DOMAIN bundles :
    \A k \in DOMAIN bundles[ref].variations :
      \E j \in DOMAIN bundles'[ref].variations :
        bundles'[ref].variations[j] = bundles[ref].variations[k]

\* C25: a call of a variations bundle, naked or not, matching or not, adds,
\* removes and rebinds no name in the environment of the caller, and none in
\* the environment a variation of a bundle holds.
C25_CallKeepsEnvironments ==
  [][BundleCalled => env' = env /\ CapturedKept]_vars

-----------------------------------------------------------------------------
(* The passes of the loop of _visit_node on a Call node with a callee that  *)
(* is no special form: `pending` is the activation, at the top of the loop   *)
(* or with the callee visited.                                               *)

DigitValue ==
  ("0" :> 0) @@ ("1" :> 1) @@ ("2" :> 2) @@ ("3" :> 3) @@ ("4" :> 4)
  @@ ("5" :> 5) @@ ("6" :> 6) @@ ("7" :> 7) @@ ("8" :> 8) @@ ("9" :> 9)

RECURSIVE DecimalValue(_)
\* The number a text of decimal digits writes
DecimalValue(text) ==
  IF text = <<>> THEN 0
  ELSE 10 * DecimalValue(Front(text)) + DigitValue[text[Len(text)]]

\* Fraction(arg.value), on texts of letters and digits: a ValueError unless
\* the text is one or more decimal digits
FractionOf(text) ==
  IF text # <<>> /\ \A i \in 1..Len(text) : text[i] \in DOMAIN DigitValue
  THEN Ok(RyNum(DecimalValue(text)))
  ELSE Die("was not able to convert to num")

RECURSIVE DecimalText(_)
\* repr(arg) of a RyNum that is a natural number
DecimalText(n) ==
  Let(CHOOSE ch \in DOMAIN DigitValue : DigitValue[ch] = n % 10, LAMBDA digit :
    IF n < 10 THEN <<digit>> ELSE Append(DecimalText(n \div 10), digit))

\* The conversions of the type-like functions, of one argument
Convert(callee, arg) ==
  CASE callee.value = TypeText("num") /\ arg.type = "str" -> FractionOf(arg.value)
    [] callee.value = TypeText("str") /\ arg.type = "num" ->
         Ok(RyStr(DecimalText(arg.value)))
    [] callee.value = TypeText("vec") /\ arg.type = "str" ->
         Ok(RyVec([i \in 1..Len(arg.value) |-> RyStr(<<arg.value[i]>>)]))
    [] callee.value = TypeText("type") -> Ok(RyTypeType(TypeText(arg.type)))
    [] OTHER -> Die("no special-form to convert")

\* The rest of a pass, the callee visited: what it returns or raises, or
\* "again" when it reaches the end of the loop's body with the node it had
AfterCallee(e, heap, node, callee) ==
  CASE callee.type = "type" ->
         IF Len(node.args) = 1
         THEN Let(VisitList(e, node.args), LAMBDA args :
                IF args.st # "ok" THEN args ELSE Convert(callee, args.value[1]))
         ELSE [st |-> "again"]
    [] callee.type = "variations" ->
         Let(VisitCall(e, heap, node), LAMBDA r :
           IF r.st = "done" THEN r.result ELSE Die(r.reason))
    [] OTHER -> Die("callee is not callable")

TypeCallees == {"num", "str", "vec", "type", "true", "nope"}

TypeArguments == {Number(5), Number(12), String(<<"5">>), String(TxHi), Request("nope")}

TypeCallNodes ==
  { Call(callee, args) :
      callee \in TypeCallees,
      args \in {<<>>} \cup {<<a>> : a \in TypeArguments}
                \cup {<<a, b>> : a \in {Number(5), Request("nope")},
                                 b \in {Number(5), String(TxHi)}} }

\* What visit keeps of a call that returned or raised
Answered(node, out) ==
  out @@ [kind |-> "type call", callee |-> node.callee.name, args |-> Len(node.args)]

\* visit: _visit_node(state, node) is called with the next form, a Call node
EnterCall ==
  /\ pending.type = "idle"
  /\ \E node \in TypeCallNodes : pending' = [type |-> "top", node |-> AtLine(node)]
  /\ UNCHANGED <<env, bundles, forms, last, caches, readers, lexed, after, fed, quoted>>

\* A pass from the top of the loop to the callee: callee = _visit_node(S,
\* node.callee)
VisitCallee ==
  /\ pending.type = "top"
  /\ Let(VisitValueNode(env, pending.node.callee), LAMBDA callee :
       IF callee.st = "ok"
       THEN /\ pending' = [type |-> "callee", node |-> pending.node,
                           callee |-> callee.value]
            /\ last' = last
       ELSE /\ pending' = [type |-> "idle"]
            /\ last' = Answered(pending.node, callee))
  /\ UNCHANGED <<env, bundles, forms, caches, readers, lexed, after, fed, quoted>>

\* The pass goes on from the callee: it returns, raises, or ends at the
\* bottom of the loop's body, and the loop takes the same node again
ApplyCallee ==
  /\ pending.type = "callee"
  /\ Let(AfterCallee(env, bundles, pending.node, pending.callee), LAMBDA out :
       IF out.st = "again"
       THEN /\ pending' = [type |-> "top", node |-> pending.node]
            /\ last' = last
       ELSE /\ pending' = [type |-> "idle"]
            /\ last' = Answered(pending.node, out))
  /\ UNCHANGED <<env, bundles, forms, caches, readers, lexed, after, fed, quoted>>

NextType == EnterCall \/ VisitCallee \/ ApplyCallee

SpecType == Init /\ [][NextType]_vars

\* The interpreter goes on with an activation it has
LiveType == SpecType /\ WF_vars(VisitCallee) /\ WF_vars(ApplyCallee)

\* An activation on a call of a type value
TypeCallRuns ==
  /\ pending.type = "callee"
  /\ pending.callee.type = "type"

\* C26: every evaluation of a Call node whose callee is a type value ends,
\* with a value or with an error, whatever the number of arguments.
C26_TypeCallTerminates == TypeCallRuns ~> (pending.type = "idle")

-----------------------------------------------------------------------------
(* What a pattern that fails leaves in the environment it was matched in.    *)

TxAb == <<"a", "b">>

\* The arms of the cases: patterns that bind a name and then fail, that bind
\* and match, and that bind nothing; bodies that read the names
BindingArms ==
  << \* (x | false) => 1
     MatchCase(P_Guard("x", Request("false")), <<Number(1)>>),
     \* [a "z"] => 1
     MatchCase(P_Unpack(<<P_Identifier("a"), P_Compare(String(<<"z">>))>>),
               <<Number(1)>>),
     \* y => x
     MatchCase(P_Identifier("y"), <<Request("x")>>),
     \* y => a
     MatchCase(P_Identifier("y"), <<Request("a")>>),
     \* (x | true) => x
     MatchCase(P_Guard("x", Request("true")), <<Request("x")>>),
     \* 0 => 1
     MatchCase(P_Compare(Number(0)), <<Number(1)>>) >>

\* The heads: 5, "ab"
BindingHeads == << Number(5), String(TxAb) >>

\* The lists of one or two different arms, by their indices
BindingArmLists ==
  { arms \in UNION { [1..n -> DOMAIN BindingArms] : n \in 1..2 } :
      \A i \in DOMAIN arms : \A j \in DOMAIN arms : i # j => arms[i] # arms[j] }

\* case head { arms }
BindingCases ==
  { Cases(BindingHeads[head], [i \in DOMAIN arms |-> BindingArms[arms[i]]]) :
      head \in DOMAIN BindingHeads, arms \in BindingArmLists }

\* x = 9    [a "z"] = "ab"    [a "b"] = "ab"
BindingAssigns ==
  { Assign(P_Identifier("x"), Number(9)),
    Assign(P_Unpack(<<P_Identifier("a"), P_Compare(String(<<"z">>))>>), String(TxAb)),
    Assign(P_Unpack(<<P_Identifier("a"), P_Compare(String(<<"b">>))>>), String(TxAb)) }

EvalBindingCases == EvalFormOf(BindingCases)

EvalBindingAssign == EvalFormOf(BindingAssigns)

NextBinding == EvalBindingCases \/ EvalBindingAssign

SpecBinding == Init /\ [][NextBinding]_vars

\* The step evaluated a case none of whose arms matched, or an assignment
\* that died
NoPatternMatched ==
  /\ last'.kind = "form"
  /\ \/ /\ last'.node.type = "Cases"
        /\ last'.st = "ok"
        /\ last'.value = RyBool(FALSE)
     \/ /\ last'.node.type = "Assign"
        /\ last'.st = "die"

\* C27: a pattern match that fails leaves the environment it was given as it
\* was: after the arms of a case fail, or the pattern of an assignment, no
\* name the failed patterns bound is in the environment.
C27_FailedMatchBindsNothing == [][NoPatternMatched => env' = env]_vars

-----------------------------------------------------------------------------
(* The items an unpack pattern that matched has taken. *)

RECURSIVE CapturedBy(_)
\* The number of items the named variable-length members of these indices
\* captured
CapturedBy(groups) ==
  IF groups = {} THEN 0
  ELSE Let(CHOOSE i \in groups : TRUE, LAMBDA i :
         Len(Captured(Members[i].name)) + CapturedBy(groups \ {i}))

\* C28: when an unpack pattern matches, its members have taken every item of
\* the value: the items the variable-length members captured and the one item
\* of every single-value member, delimiters included, are as many as the
\* vector or the string has.
C28_UnpackConsumesAll ==
  last.kind = "match" /\ last.st = "ok" /\ (\A i \in Groups : NamedOnce(i))
    => CapturedBy(Groups) + Cardinality(Singles) = Len(last.value.value)

-----------------------------------------------------------------------------
(* Extraction: the fields of a P_Extract pattern and the values an instance  *)
(* holds for them.                                                           *)

ExtractObjectNodes ==
  { \* obj Pair a b
    Object("Pair", <<P_Identifier("a"), P_Identifier("b")>>, <<>>, FALSE),
    \* obj Single a
    Object("Single", <<P_Identifier("a")>>, <<>>, FALSE),
    \* obj Unit
    Object("Unit", <<>>, <<>>, FALSE) }

ExtractInstanceNodes ==
  { \* p = new Pair 5 0
    Assign(P_Identifier("p"), Instance("Pair", <<Number(5), Number(0)>>)),
    \* p = new Pair 0 0
    Assign(P_Identifier("p"), Instance("Pair", <<Number(0), Number(0)>>)),
    \* p = new Single 5
    Assign(P_Identifier("p"), Instance("Single", <<Number(5)>>)),
    \* p = new Unit
    Assign(P_Identifier("p"), Instance("Unit", <<>>)),
    \* p = new Pair 5
    Assign(P_Identifier("p"), Instance("Pair", <<Number(5)>>)) }

\* The fields: none, x, x y, x y z, 5, 5 0 1
ExtractFields ==
  { <<>>, <<P_Identifier("x")>>, <<P_Identifier("x"), P_Identifier("y")>>,
    <<P_Identifier("x"), P_Identifier("y"), P_Identifier("z")>>,
    <<P_Compare(Number(5))>>,
    <<P_Compare(Number(5)), P_Compare(Number(0)), P_Compare(Number(1))>> }

\* Pair(fields) = p, Single(fields) = p, Unit(fields) = p
ExtractNodes ==
  { Assign(P_Extract(obj, fields), Request("p")) :
      obj \in {"Pair", "Single", "Unit"}, fields \in ExtractFields }

EvalExtractObject == EvalObjectOf(ExtractObjectNodes)

EvalExtractInstance == EvalAssignOf(ExtractInstanceNodes)

\* visit: the next top-level form is the assignment of p to a P_Extract
\* pattern
EvalExtract ==
  /\ forms < MaxForms
  /\ "p" \in DOMAIN env
  /\ \E node \in ExtractNodes :
       LET r == VisitAssign(env, AtLine(node))
       IN /\ env' = r.env
          /\ last' = [kind |-> "extract", st |-> r.out.st, pattern |-> node.pattern,
                      value |-> env["p"]]
  /\ forms' = forms + 1
  /\ UNCHANGED bundles
  /\ UNCHANGED ioVars

NextExtract == EvalExtractObject \/ EvalExtractInstance \/ EvalExtract

SpecExtract == Init /\ [][NextExtract]_defVars

\* A P_Extract pattern that names an object has matched a routeable
ExtractMatched ==
  /\ last.kind = "extract"
  /\ last.st = "ok"
  /\ last.value.type = "routeable"
  /\ env[last.pattern.obj].type = "object"

\* C29: a P_Extract pattern that names an object matches a routeable only
\* if it has as many fields as the routeable has extractable values, which
\* are as many as the object has properties.
C29_ExtractCountsFields ==
  ExtractMatched =>
    /\ Len(last.pattern.fields) = Len(last.value.extractable)
    /\ Len(last.pattern.fields) = Len(env[last.pattern.obj].props)

-----------------------------------------------------------------------------
(* What an import leaves of the kernel of the importing environment. *)

\* The names Master.kernel binds: PATH, MODULE-CACHE, true, false, the types
\* and the builtins
KernelNames == DOMAIN Kernel(1, 1)

\* The step evaluated a Needs node that loaded a module and returned
ModuleLoaded ==
  /\ last'.kind = "needs"
  /\ last'.st = "ok"
  /\ ~last'.cached

\* C30: a Needs node changes the importing environment only by adding the
\* names of the module, or the one routeable of the module when it is not
\* exposed, and the path to MODULE-CACHE: the kernel names stay bound to the
\* values they had before the import.
C30_ImportKeepsKernel ==
  [][ModuleLoaded =>
       /\ \A n \in KernelNames : n \in DOMAIN env' /\ env'[n] = env[n]
       /\ \A n \in DOMAIN env : n \in DOMAIN env'
       /\ ~last'.expose => Cardinality(DOMAIN env' \ DOMAIN env) <= 1]_vars

====
